---- MODULE Spec2Model ----
(***************************************************************************)
(* eSurge model runner (easydel/inference/esurge/runners/model_runner.py): *)
(* the compiled-executable cache (ExecutorManager), the jitted input       *)
(* assembler (eSurgeRunner.get_prepare_inputs_fn._fn), request lifecycle   *)
(* synchronisation (_update_states), the window loop (execute_model) and   *)
(* token commit (_process_sampled_tokens).                                 *)
(*                                                                         *)
(* Arrays are functions over 0 .. n-1, as in the source.  Python lists     *)
(* that are appended to (req_ids_to_add, output_token_ids, page id lists)  *)
(* are sequences.                                                          *)
(***************************************************************************)
EXTENDS Integers, Sequences, FiniteSets, TLC

VARIABLES
    max_model_len,         \* eSurgeRunner.max_model_len
    page_size,             \* eSurgeRunner.page_size (metadata.page_size)
    max_num_reqs,          \* eSurgeRunner.max_num_reqs (= max_num_seqs)
    min_input_pad,         \* eSurgeRunner.min_input_pad = min(min_input_pad, max_num_seqs)
    meta_max_num_seqs,     \* metadata.get_max_num_seqs()
    use_combined_forward,  \* ExecutorManager.use_combined_forward
    use_aot_forward,       \* ExecutorManager.use_aot_forward
    lowerd_history,        \* ExecutorManager._lowerd_history: the set of cached keys
    lowerd_version,        \* _lowerd_history: for each key, which build its value is
    kv_pages,              \* ExecutorManager.kv_pages: number of forward passes applied
    rng_key,               \* ExecutorManager.rng_key: the carried key
    twin,                  \* a second ExecutorManager given the same calls
    requests,              \* eSurgeRunner.requests: id -> CachedRequestState or None
    sequence_buffer,       \* eSurgeRunner.sequence_buffer (the ledger)
    scheduler_output,      \* the SchedulerOutput of the tick in progress, or None
    pc,                    \* position of execute_model / of the harness
    start_index,           \* execute_model: start_index
    combined_selected_tokens, \* execute_model: the per-window token slices so far
    bufs,                  \* the scratch buffers and scalars of the last _prepare_inputs
    last_key,              \* the shape key of the last execute, or None
    output,                \* the last ModelRunnerOutput, or None
    tick,                  \* number of execute_model (SpecShape: execute) calls started
    fn_in,                 \* inputs of a direct call of the jitted assembler
    upd,                   \* locals of the last _update_states, or None
    batch_count,           \* execute_model: batch_count
    commit                 \* what the last _process_sampled_tokens was called on, or None

vars == << max_model_len, page_size, max_num_reqs, min_input_pad, meta_max_num_seqs, use_combined_forward,
           use_aot_forward, lowerd_history, lowerd_version, kv_pages, rng_key, twin,
           requests, sequence_buffer, scheduler_output, pc, start_index,
           combined_selected_tokens, bufs, last_key, output, tick, fn_in,
           upd, batch_count, commit >>

\* the construction-time configuration
cfg == << max_model_len, page_size, max_num_reqs, min_input_pad, meta_max_num_seqs,
          use_combined_forward, use_aot_forward >>

\* Python's None as an entry of req_ids
None == "None"

\* An optional record is a sequence of length 0 (None) or 1
Nothing == << >>

Some(x) == << x >>

\* x is None, for an x that is a record otherwise
IsNothing(x) == DOMAIN x = {}

(***************************************************************************)
(* Construction-time configuration of the instance that is model checked.  *)
(***************************************************************************)
MinTokenSize == 16
PaddingGap == 0
CfgMaxModelLen == 16
CfgPageSize == 4
SlicesPerPage == 2
PAGE_TABLE_PADDING_VAL == 2147483647
SLOT_MAPPING_PADDING_VAL == -1

CfgMaxNumSeqs == 3
CfgMinInputPad == 2
CfgMetaMaxNumSeqs == 2

(***************************************************************************)
(* Bounds of the exploration.                                              *)
(***************************************************************************)
MaxCfgSeqs == 5       \* SpecShape: max_num_seqs ranges over 1 .. MaxCfgSeqs
MaxCfgPad == 5        \* SpecShape: min_input_pad ranges over 1 .. MaxCfgPad
MaxComputed == 4      \* SpecAsm: num_computed_tokens ranges over 0 .. MaxComputed
LongTicks == 5        \* SpecLong: at most LongTicks calls of execute_model
MaxPadX == 33         \* SpecPad: x ranges over 0 .. MaxPadX
MaxPadUpper == 32     \* SpecPad: upper_limit ranges over 1 .. MaxPadUpper
MaxPadMin == 8        \* SpecPad: min_input_pad ranges over 1 .. MaxPadMin
MaxLadderMin == 16    \* SpecPad: min_token_size ranges over -MaxLadderNeg .. MaxLadderMin
MaxLadderNeg == 2      \* SpecPad: the lowest min_token_size is -MaxLadderNeg
MaxLadderMax == 128   \* SpecPad: max_token_size ranges over 0 .. MaxLadderMax
LadderGap == 16       \* SpecPad: padding_gap is 0 or LadderGap
MaxRuns == 2          \* SpecShape: at most MaxRuns calls of execute
MaxSched == 2         \* SpecAsm: scheduled tokens range over 0 .. MaxSched
MaxTicks == 3         \* Spec: at most MaxTicks calls of execute_model
MaxWindows == 3       \* Spec: at most MaxWindows windows are followed in a tick
ShortPromptLen == 2   \* Spec: the prompts of requests a and b have ShortPromptLen tokens
VocabSize == 50       \* Spec: sampled tokens are in 1 .. VocabSize

(***************************************************************************)
(* Array helpers.                                                          *)
(***************************************************************************)
Range0(n) == 0 .. (n - 1)

\* int32 addition and multiplication by a small count, wrapping around
Add32(x, y) ==
    IF x > 0 /\ y > 0 /\ x > 2147483647 - y
    THEN ((x - 2147483647) - 1) + ((y - 2147483647) - 1)
    ELSE IF x < 0 /\ y < 0 /\ x < (-2147483647 - 1) - y
    THEN ((x + 2147483647) + 1) + ((y + 2147483647) + 1)
    ELSE x + y

RECURSIVE Mul32(_, _)
Mul32(x, n) == IF n <= 0 THEN 0 ELSE Add32(Mul32(x, n - 1), x)

\* the array f with every element computed once (an evaluation aid: f itself)
Array(f) == f @@ << >>

\* F applied to the value of e, which is computed once
Bind(e, F(_)) == CHOOSE r \in {F(v) : v \in {e}} : TRUE

Min2(a, b) == IF a <= b THEN a ELSE b

Max2(a, b) == IF a >= b THEN a ELSE b

\* jnp.cumsum(f)[k]
RECURSIVE PrefixSum(_, _)
PrefixSum(f, k) == IF k < 0 THEN 0 ELSE f[k] + PrefixSum(f, k - 1)

\* jnp.searchsorted(a, v, side="left") on the sorted array a of length n
SearchSortedLeft(a, n, v) == Cardinality({i \in Range0(n) : a[i] < v})

\* jnp.searchsorted(a, v, side="right") on the sorted array a of length n
SearchSortedRight(a, n, v) == Cardinality({i \in Range0(n) : a[i] <= v})

\* a[i] of a jax array of length n: an index past the end is clamped
Gather(a, n, i) == a[Min2(Max2(i, 0), n - 1)]

RECURSIVE Pow2(_)
Pow2(k) == IF k <= 0 THEN 1 ELSE 2 * Pow2(k - 1)

\* int.bit_length() of n >= 0
RECURSIVE BitLength(_)
BitLength(n) == IF n <= 0 THEN 0 ELSE 1 + BitLength(n \div 2)

\* ceil(log2(n)) for n >= 1, the exponent the assembler shifts by
RECURSIVE CeilLog2(_)
CeilLog2(n) == IF n <= 1 THEN 0 ELSE 1 + CeilLog2((n + 1) \div 2)


(***************************************************************************)
(* Padding ladder and request-count padding.                               *)
(***************************************************************************)
\* 3 passes as well
IsPowerOfTwoOrThree(n) == n > 0 /\ (n = 3 \/ n = Pow2(BitLength(n) - 1))

\* (n & (n - 1) == 0) and n > 0
IsPowerOfTwo(n) == n > 0 /\ n = Pow2(BitLength(n) - 1)

\* the doubling stops before the limit
RECURSIVE DoublingBelow(_, _)
DoublingBelow(num, limit) ==
    IF num < limit THEN <<num>> \o DoublingBelow(2 * num, limit) ELSE <<>>

\* while num <= limit: paddings.append(num); num *= 2
RECURSIVE DoublingUpTo(_, _)
DoublingUpTo(num, limit) ==
    IF num <= limit THEN <<num>> \o DoublingUpTo(2 * num, limit) ELSE <<>>

\* while num < max_token_size: num += padding_gap; paddings.append(num)
RECURSIVE AdditiveFrom(_, _, _)
AdditiveFrom(num, max_token_size, padding_gap) ==
    IF num < max_token_size
    THEN <<num + padding_gap>> \o AdditiveFrom(num + padding_gap, max_token_size, padding_gap)
    ELSE <<>>

\* eSurgeRunner._get_token_paddings; "ValueError" when it raises
GetTokenPaddings(min_token_size, max_token_size, padding_gap) ==
    IF ~IsPowerOfTwo(min_token_size) THEN "ValueError"
    ELSE IF padding_gap = 0 THEN DoublingUpTo(min_token_size, max_token_size)
    ELSE LET exp == DoublingUpTo(min_token_size, padding_gap)
             num == (min_token_size * Pow2(Len(exp))) \div 2
         IN  exp \o AdditiveFrom(num, max_token_size, padding_gap)

\* the shift is by x.bit_length()
GetPaddedNumReqsShiftByX(x, upper_limit, mip) ==
    LET res == IF x <= mip THEN mip ELSE Pow2(BitLength(x))
    IN  Min2(res, upper_limit)

\* _get_padded_num_reqs_with_upper_limit
GetPaddedNumReqsWithUpperLimit(x, upper_limit, mip) ==
    LET res == IF x <= mip THEN mip ELSE Pow2(BitLength(x - 1))
    IN  Min2(res, upper_limit)

\* metadata.get_padded_num_slices(num_tokens, max_num_reqs)
GetPaddedNumSlices(num_tokens, mnr) ==
    LET est == Min2(2 * mnr + num_tokens \div page_size, num_tokens)
    IN  ((est + SlicesPerPage - 1) \div SlicesPerPage) * SlicesPerPage

(***************************************************************************)
(* eSurgeRunner._setup_variables                                           *)
(***************************************************************************)
\* metadata.max_num_pages_per_req
max_pages_per_req == (max_model_len + page_size - 1) \div page_size

num_reqs_max_model_len == Min2(meta_max_num_seqs, max_num_reqs)

num_tokens_paddings == GetTokenPaddings(MinTokenSize, max_model_len, PaddingGap)

max_num_tokens == num_tokens_paddings[Len(num_tokens_paddings)]

max_padded_slices == GetPaddedNumSlices(max_num_tokens, max_num_reqs)

(***************************************************************************)
(* The jitted input assembler, get_prepare_inputs_fn._fn.                  *)
(***************************************************************************)
\* scheduled = jnp.where(i_reqs < nr, scheduled_full, 0)
MaskScheduled(scheduled_full, nr) ==
    Array([i \in Range0(max_num_reqs) |-> IF i < nr THEN scheduled_full[i] ELSE 0])

\* the largest entry of the ladder, whatever the total
JitPaddedTotalLargest(total) == num_tokens_paddings[Len(num_tokens_paddings)]

\* padded_total = paddings[min(searchsorted(paddings, total, "left"), len - 1)]
JitPaddedTotal(total) ==
    LET p == num_tokens_paddings
        idx_pad == Min2(Cardinality({i \in 1 .. Len(p) : p[i] < total}), Len(p) - 1)
    IN  p[idx_pad + 1]

\* padded_num_slices of the window
JitPaddedNumSlices(padded_total) ==
    LET pages_est == Min2(2 * max_num_reqs + padded_total \div page_size, padded_total)
        tmp == (pages_est + SlicesPerPage - 1) \div SlicesPerPage
    IN  Min2(tmp * SlicesPerPage, max_padded_slices)

\* padded_num_reqs of the window
JitPaddedNumReqs(nr) ==
    LET nr_safe == Max2(nr, 1)
        next_pow2 == Pow2(CeilLog2(nr_safe))
        padded == IF nr <= min_input_pad THEN min_input_pad ELSE next_pow2
    IN  Min2(padded, max_num_reqs)

\* the search taken on the other side: a token at a boundary goes to the request before
ReqForTokLeft(cum, t) == SearchSortedLeft(cum, max_num_reqs, t)

\* req_for_tok = jnp.searchsorted(cum, i_tokens, side="right")
ReqForTok(cum, t) == SearchSortedRight(cum, max_num_reqs, t)

\* a slice that always starts at the beginning of its page
SliceLocalStartZero(is_first, s_mod_r) == 0

\* kv_local_st = jnp.where(is_first, s_mod[req_for_slice], 0)
SliceLocalStart(is_first, s_mod_r) == IF is_first THEN s_mod_r ELSE 0

\* a slice that always runs to the end of its page
SliceLocalEndWholePage(is_last, e_mod_r) == page_size

\* kv_local_en = jnp.where(is_last, e_mod[req_for_slice], page_size)
SliceLocalEnd(is_last, e_mod_r) == IF is_last THEN e_mod_r ELSE page_size

\* input_ids_buf and position_ids_buf
TokenGather(scheduled, num_computed_tokens, token_ids) ==
    Bind(Array([i \in Range0(max_num_reqs) |-> PrefixSum(scheduled, i)]), LAMBDA cum :
    LET n == max_num_reqs
        total == cum[n - 1]
        valid_tok(t) == t < total
        req_for_tok(t) == IF valid_tok(t) THEN ReqForTok(cum, t) ELSE 0
        cum_prev(i) == IF i = 0 THEN 0 ELSE cum[i - 1]
        base_pos(t) == Gather(num_computed_tokens, n, req_for_tok(t))
        off_in_req(t) == t - cum_prev(Min2(req_for_tok(t), n - 1))
    IN  Bind(Array([t \in Range0(max_num_tokens) |->
                       IF valid_tok(t) THEN base_pos(t) + off_in_req(t) ELSE 0]),
             LAMBDA positions_full :
        [input_ids |-> Array([t \in Range0(max_num_tokens) |->
                                 IF valid_tok(t)
                                 THEN Gather(Gather(token_ids, n, req_for_tok(t)),
                                             max_model_len, positions_full[t])
                                 ELSE 0]),
         position_ids |-> positions_full]))

\* lpe - lps + 1 for every row, also for a row without scheduled tokens
PageLensUnmasked(scheduled, s) ==
    Array([i \in Range0(max_num_reqs) |->
              (Max2(s[i] + scheduled[i], 1) - 1) \div page_size - s[i] \div page_size + 1])

\* page_lens = jnp.where(scheduled > 0, lpe - lps + 1, 0)
PageLens(scheduled, s) ==
    Array([i \in Range0(max_num_reqs) |->
              IF scheduled[i] > 0
              THEN (Max2(s[i] + scheduled[i], 1) - 1) \div page_size - s[i] \div page_size + 1
              ELSE 0])

\* a variant of SlotMappingPut that fills the unused columns with 0
SlotMappingPutZero(within_pad, slice_active, v) ==
    IF within_pad /\ slice_active THEN v ELSE 0

\* jnp.where(within_pad, jnp.where(slice_active, v, slot_mapping_pad),
\*           slot_mapping_pad)
SlotMappingPut(within_pad, slice_active, v) ==
    IF within_pad
    THEN (IF slice_active THEN v ELSE SLOT_MAPPING_PADDING_VAL)
    ELSE SLOT_MAPPING_PADDING_VAL

\* the three rows of slot_mapping_buf, from the per-request page counts and
\* their running sum
SlotMappingRows(scheduled, s, seq_page_table, page_lens, page_cum, padded_num_slices) ==
    LET n == max_num_reqs
        mps == max_padded_slices
        mppr == max_pages_per_req
        total_pages == page_cum[n - 1]
        valid_slice(k) == k < total_pages
        within_pad(k) == k < padded_num_slices
        slice_active(k) == valid_slice(k) /\ within_pad(k)
        page_cum_prev(i) == IF i = 0 THEN 0 ELSE page_cum[i - 1]
        req_for_slice(k) == IF slice_active(k) THEN SearchSortedRight(page_cum, n, k) ELSE 0
        pt_full(g) == seq_page_table[Min2(g, n * mppr - 1) \div mppr][Min2(g, n * mppr - 1) % mppr]
        s_mod(i) == s[i] % page_size
        e_mod(i) == ((Max2(s[i] + scheduled[i], 1) - 1) % page_size) + 1
        \* kv_cache_start and slice_lens of slice k, which belongs to request r
        Slice(k, r) ==
            LET local_off == k - page_cum_prev(r)
                gpi == r * mppr + s[r] \div page_size + local_off
                page_number == IF slice_active(k) THEN pt_full(gpi) ELSE 0
                is_first == local_off = 0
                is_last == local_off = page_lens[r] - 1
            IN  Bind(SliceLocalStart(is_first, s_mod(r)), LAMBDA kv_local_st :
                    [kv_cache_start |-> Add32(kv_local_st, Mul32(page_number, page_size)),
                     slice_lens |-> Max2(SliceLocalEnd(is_last, e_mod(r)) - kv_local_st, 0)])
        Put(k, v) == SlotMappingPut(within_pad(k), slice_active(k), v)
    IN  Bind(Array([k \in Range0(mps) |-> Slice(k, req_for_slice(k))]), LAMBDA sl :
        Bind(Array([k \in Range0(mps) |-> IF slice_active(k) THEN sl[k].slice_lens ELSE 0]),
             LAMBDA slice_lens_masked :
            [sm0 |-> Array([k \in Range0(mps) |-> Put(k, sl[k].kv_cache_start)]),
             sm1 |-> Array([k \in Range0(mps) |->
                               Put(k, IF k = 0 THEN 0 ELSE PrefixSum(slice_lens_masked, k - 1))]),
             sm2 |-> Array([k \in Range0(mps) |-> Put(k, sl[k].slice_lens)]),
             num_kv_update_slices |-> total_pages,
             padded_num_slices |-> padded_num_slices]))

\* slot_mapping_buf (rows sm0, sm1, sm2), total_pages and padded_num_slices
SlotMapping(scheduled, num_computed_tokens, seq_page_table, padded_total) ==
    Bind(PageLens(scheduled, num_computed_tokens), LAMBDA page_lens :
    Bind(Array([i \in Range0(max_num_reqs) |-> PrefixSum(page_lens, i)]), LAMBDA page_cum :
    Bind(JitPaddedNumSlices(padded_total), LAMBDA padded_num_slices :
        SlotMappingRows(scheduled, num_computed_tokens, seq_page_table,
                        page_lens, page_cum, padded_num_slices))))

\* a variant of LogitsIndex that points one past the request's last token
LogitsIndexOnePast(mask_logits, qsl_next) == IF mask_logits THEN qsl_next ELSE 0

\* logits_indices_full = jnp.where(mask_logits, qsl[1:] - 1, 0)
LogitsIndex(mask_logits, qsl_next) == IF mask_logits THEN qsl_next - 1 ELSE 0

\* qsl, seq_lens, pt and logits_indices_full of the masked counts
RequestBuffers(scheduled, cum, nr, num_computed_tokens, seq_page_table, padded_num_reqs) ==
    LET n == max_num_reqs
        qsl(i) == IF i = 0 THEN 0 ELSE cum[i - 1]
    IN  [query_start_loc_buf |-> Array([i \in Range0(n + 1) |-> qsl(i)]),
         seq_lens_buf |-> Array([i \in Range0(n) |->
                                    IF i < nr THEN num_computed_tokens[i] + scheduled[i] ELSE 0]),
         pages_tables_buf |->
             Array([i \in Range0(num_reqs_max_model_len) |->
                       IF i < Min2(nr, num_reqs_max_model_len)
                       THEN seq_page_table[i]
                       ELSE [j \in Range0(max_pages_per_req) |-> PAGE_TABLE_PADDING_VAL]]),
         logits_indices_full |-> Array([i \in Range0(n) |->
                                           LogitsIndex(i < padded_num_reqs, qsl(i + 1))])]

\* _fn: the eleven results
PrepareInputsFn(scheduled_full, num_reqs, num_computed_tokens, token_ids, seq_page_table) ==
    Bind(MaskScheduled(scheduled_full, num_reqs), LAMBDA scheduled :
    Bind(Array([i \in Range0(max_num_reqs) |-> PrefixSum(scheduled, i)]), LAMBDA cum :
    Bind(JitPaddedTotal(cum[max_num_reqs - 1]), LAMBDA padded_total :
    Bind(JitPaddedNumReqs(num_reqs), LAMBDA padded_num_reqs :
    Bind(TokenGather(scheduled, num_computed_tokens, token_ids), LAMBDA tg :
    Bind(SlotMapping(scheduled, num_computed_tokens, seq_page_table, padded_total), LAMBDA sm :
    Bind(RequestBuffers(scheduled, cum, num_reqs, num_computed_tokens, seq_page_table,
                        padded_num_reqs), LAMBDA rb :
        [input_ids_buf |-> tg.input_ids,
         position_ids_buf |-> tg.position_ids,
         query_start_loc_buf |-> rb.query_start_loc_buf,
         seq_lens_buf |-> rb.seq_lens_buf,
         pages_tables_buf |-> rb.pages_tables_buf,
         sm0 |-> sm.sm0, sm1 |-> sm.sm1, sm2 |-> sm.sm2,
         logits_indices_full |-> rb.logits_indices_full,
         padded_total |-> padded_total,
         padded_num_reqs |-> padded_num_reqs,
         num_kv_update_slices |-> sm.num_kv_update_slices,
         padded_num_slices |-> sm.padded_num_slices])))))))

(***************************************************************************)
(* The host-side slot mapping: eSurgeRunner._vectorized_slot_mapping and   *)
(* _get_slot_mapping_metadata.  The result is the list of rows             *)
(* (kv_cache_start, new_kv_start, slice_lens).                             *)
(***************************************************************************)
\* page_lens = lpe - lps + 1 with lps = s // page_size, lpe = (e - 1) // page_size
VecPageLens(s, n, i) ==
    ((s[i] + n[i] - 1) \div page_size) - (s[i] \div page_size) + 1

\* req_ids and local_page_offsets: one (request, page offset) per slice
RECURSIVE VecSlices(_, _, _, _)
VecSlices(s, n, num_reqs, i) ==
    IF i >= num_reqs THEN << >>
    ELSE [off \in 1 .. VecPageLens(s, n, i) |-> << i, off - 1 >>]
             \o VecSlices(s, n, num_reqs, i + 1)

\* kv_cache_start and slice_lens of the slice of request r at page offset off
VecSlice(s, n, seq_page_table, num_reqs, r, off) ==
    LET size == num_reqs * max_pages_per_req
        g == Min2(r * max_pages_per_req + (s[r] \div page_size) + off, size - 1)
        page_number == seq_page_table[g \div max_pages_per_req][g % max_pages_per_req]
        kv_local_st == IF off = 0 THEN s[r] % page_size ELSE 0
        kv_local_en == IF off = VecPageLens(s, n, r) - 1
                       THEN ((s[r] + n[r] - 1) % page_size) + 1 ELSE page_size
    IN  [kv_cache_start |-> Add32(kv_local_st, Mul32(page_number, page_size)),
         slice_lens |-> kv_local_en - kv_local_st]

RECURSIVE VecLensBefore(_, _)
VecLensBefore(sl, k) == IF k <= 1 THEN 0 ELSE sl[k - 1].slice_lens + VecLensBefore(sl, k - 1)

\* _vectorized_slot_mapping(num_computed_tokens, num_scheduled_tokens_per_req,
\*                          page_table_flat, num_reqs, page_size, max_num_pages_per_req)
VectorizedSlotMapping(s, n, seq_page_table, num_reqs) ==
    Bind(VecSlices(s, n, num_reqs, 0), LAMBDA pairs :
    Bind([k \in 1 .. Len(pairs) |->
             VecSlice(s, n, seq_page_table, num_reqs, pairs[k][1], pairs[k][2])], LAMBDA sl :
        [k \in 1 .. Len(sl) |->
            << sl[k].kv_cache_start, VecLensBefore(sl, k), sl[k].slice_lens >>]))

\* the shortcut with the page number alone
SingleTokenSlicePageOnly(num_computed, page_row) ==
    << << page_row[num_computed \div page_size] * page_size, 0, 1 >> >>

\* the shortcut of _get_slot_mapping_metadata for one request with one token
SingleTokenSlice(num_computed, page_row) ==
    LET page_idx == Min2(num_computed \div page_size, max_pages_per_req - 1)
        page_offset == num_computed % page_size
    IN  << << page_row[page_idx] * page_size + page_offset, 0, 1 >> >>

\* _get_slot_mapping_metadata(num_reqs, num_scheduled_tokens_per_req)
GetSlotMappingMetadata(s, n, seq_page_table, num_reqs) ==
    IF num_reqs = 1 /\ n[0] = 1
    THEN SingleTokenSlice(s[0], seq_page_table[0])
    ELSE VectorizedSlotMapping(s, n, seq_page_table, num_reqs)

(***************************************************************************)
(* ExecutorManager: the executable cache.                                  *)
(***************************************************************************)
\* the keys get_compiled_key reads for (num_tokens, padded_num_reqs)
CompiledKeys(num_tokens, padded_num_reqs) ==
    IF use_combined_forward
    THEN {<< num_tokens, padded_num_reqs >>}
    ELSE {<< num_tokens, padded_num_reqs, "hidden_states" >>,
          << num_tokens, padded_num_reqs, "tokens" >>}

\* get_compiled_key succeeds (no KeyError)
HasCompiledKey(num_tokens, padded_num_reqs) ==
    CompiledKeys(num_tokens, padded_num_reqs) \subseteq lowerd_history

\* reqs_padds of ExecutorManager.compile
CompileReqsPadds ==
    {GetPaddedNumReqsWithUpperLimit(num_reqs, max_num_reqs, min_input_pad) :
        num_reqs \in Range0(max_num_reqs)}

\* the (num_tokens, reqs_padd) pairs compile loops over
CompilePairs ==
    {<< num_tokens_paddings[i], rp >> : i \in 1 .. Len(num_tokens_paddings),
                                        rp \in CompileReqsPadds}

\* forward passes compile_key runs on example inputs for the pairs: none in
\* AOT mode (lower/compile only); in JIT mode one per pair in combined mode,
\* and one per missing hidden-states key in split mode
CompileForwardRuns(pairs) ==
    IF use_aot_forward THEN 0
    ELSE IF use_combined_forward THEN Cardinality(pairs)
    ELSE Cardinality({pr \in pairs :
                         << pr[1], pr[2], "hidden_states" >> \notin lowerd_history})

\* compile_key builds and stores under key: in combined mode always, in
\* split mode under `if key not in self._lowerd_history.keys()`
CompileKeyStores(key) == use_combined_forward \/ key \notin lowerd_history

\* the value compile_key leaves under key: in AOT mode each lower().compile()
\* is a new executable, in JIT mode the stored value is the jitted function
\* itself, one and the same object for every store
CompileKeyVersion(key) ==
    IF ~CompileKeyStores(key) THEN lowerd_version[key]
    ELSE IF use_aot_forward
    THEN (IF key \in DOMAIN lowerd_version THEN lowerd_version[key] ELSE 0) + 1
    ELSE 1

\* ExecutorManager.compile: every pair through _step_compile / compile_key
ExecutorCompile ==
    /\ lowerd_history' = lowerd_history
            \cup UNION {CompiledKeys(pr[1], pr[2]) : pr \in CompilePairs}
    /\ lowerd_version' = [key \in lowerd_history' |-> CompileKeyVersion(key)] @@ << >>
    /\ kv_pages' = kv_pages + CompileForwardRuns(CompilePairs)
    /\ UNCHANGED << rng_key, twin >>

\* jax.random.split(key, n)[j] for j <= max_num_reqs: keys are numbered so
\* that different (key, j) give different keys and none is PRNGKey(0) = 0
SplitKey(key, j) == key * (max_num_reqs + 1) + j + 1

\* keys[0], the key the stage returns
CarriedKey(key) == SplitKey(key, 0)

\* a variant of RowKeys that hands out keys[:-1]
RowKeysFromFirst(key, rows) == [i \in Range0(rows) |-> SplitKey(key, i)]

\* keys[1:], row i samples with keys[1 + i]
RowKeys(key, rows) == [i \in Range0(rows) |-> SplitKey(key, i + 1)]

\* sample_top_p_efficient of one row with its own key
SampleTopP(logit, key) == 1 + ((logit + key) % VocabSize)

\* the forward pass of a stage on cache kv: the hidden states (left to the
\* caller's logits) and output.past_key_values, a new cache
ForwardStage(fn, kv) == [fn |-> fn, kv_in |-> kv, kv_out |-> kv + 1]

\* the sampling of a stage: logits of the selected rows, one key per row
SampleStage(logits, key, rows) ==
    [row_keys |-> RowKeys(key, rows),
     token_ids |-> [i \in Range0(rows) |-> SampleTopP(logits[i], RowKeys(key, rows)[i])],
     rng_out |-> CarriedKey(key)]

\* a variant of ExecuteCall that drops the cache the forward pass returns
ExecuteCallKeepsCache(kv, key, logits, rows) ==
    Bind(SampleStage(logits, key, rows), LAMBDA smp :
        [raised |-> FALSE,
         stages |-> << ForwardStage(IF use_combined_forward THEN "main" ELSE "hidden_states",
                                    kv) >>,
         kv_pages |-> kv,
         rng_key |-> smp.rng_out,
         row_keys |-> smp.row_keys,
         logits |-> logits,
         token_ids |-> smp.token_ids,
         second |-> IF use_combined_forward THEN Nothing ELSE Some(smp.token_ids)])

\* the body of execute after the lookup, on cache kv and key key: the
\* stage calls in their order, what is assigned to self.kv_pages and
\* self.rng_key, and the returned pair (second is None or an array)
ExecuteCall(kv, key, logits, rows) ==
    Bind(SampleStage(logits, key, rows), LAMBDA smp :
        IF use_combined_forward
        THEN [raised |-> FALSE,
              stages |-> << ForwardStage("main", kv) >>,
              kv_pages |-> ForwardStage("main", kv).kv_out,
              rng_key |-> smp.rng_out,
              row_keys |-> smp.row_keys,
              logits |-> logits,
              token_ids |-> smp.token_ids,
              second |-> Nothing]
        ELSE [raised |-> FALSE,
              stages |-> << ForwardStage("hidden_states", kv),
                            [fn |-> "tokens", kv_in |-> None, kv_out |-> None] >>,
              kv_pages |-> ForwardStage("hidden_states", kv).kv_out,
              rng_key |-> smp.rng_out,
              row_keys |-> smp.row_keys,
              logits |-> logits,
              token_ids |-> smp.token_ids,
              second |-> Some(smp.token_ids)])

\* execute left by the KeyError of get_compiled_key
ExecuteRaised(kv, key) ==
    [raised |-> TRUE, stages |-> << >>, kv_pages |-> kv, rng_key |-> key,
     row_keys |-> << >>, logits |-> << >>, token_ids |-> << >>, second |-> Nothing]

\* the logits of the selected rows for an input of num_tokens tokens
ExampleLogits(num_tokens, rows) == [i \in Range0(rows) |-> num_tokens + i]

\* execute without the lookup: the stages run whatever the cache holds
ExecutorExecuteOutcomeUnchecked(num_tokens, padded_num_reqs) ==
    ExecuteCall(kv_pages, rng_key, ExampleLogits(num_tokens, padded_num_reqs), padded_num_reqs)

\* ExecutorManager.execute as far as the executor's state goes:
\* get_compiled_key raises KeyError for a missing key before a stage is
\* called; the hidden-states stage (or the combined function) returns the
\* new kv_pages, the tokens stage (or the combined function) the new rng_key
ExecutorExecuteOutcome(num_tokens, padded_num_reqs) ==
    IF HasCompiledKey(num_tokens, padded_num_reqs)
    THEN ExecuteCall(kv_pages, rng_key, ExampleLogits(num_tokens, padded_num_reqs),
                     padded_num_reqs)
    ELSE ExecuteRaised(kv_pages, rng_key)

\* the same execute call on the second executor
TwinExecute(num_tokens, padded_num_reqs) ==
    IF HasCompiledKey(num_tokens, padded_num_reqs)
    THEN Bind(ExecuteCall(0, twin.rng_key, ExampleLogits(num_tokens, padded_num_reqs),
                          padded_num_reqs),
              LAMBDA out : [rng_key |-> out.rng_key, token_ids |-> Some(out.token_ids)])
    ELSE twin

(***************************************************************************)
(* State after construction: ExecutorManager.__init__, _setup_variables,   *)
(* SequenceBuffer.__init__.                                                *)
(***************************************************************************)
ReqIds == {"a", "b", "c"}

ZeroArray(n) == [i \in Range0(n) |-> 0]

EmptySequenceBuffer(mnr, mml, ps) ==
    [req_ids |-> << >>,
     req_id_to_index |-> << >>,
     token_ids |-> [r \in Range0(mnr) |-> ZeroArray(mml)],
     num_tokens |-> ZeroArray(mnr),
     num_computed_tokens |-> ZeroArray(mnr),
     page_table |-> [r \in Range0(mnr) |->
                       [j \in Range0((mml + ps - 1) \div ps) |-> PAGE_TABLE_PADDING_VAL]]]

\* eSurgeRunner.__init__ with the given arguments
Construct(mml, ps, mns, mip, meta, combined, aot) ==
    /\ max_model_len = mml
    /\ page_size = ps
    /\ max_num_reqs = mns
    /\ min_input_pad = Min2(mip, mns)
    /\ meta_max_num_seqs = meta
    /\ use_combined_forward = combined
    /\ use_aot_forward = aot
    /\ lowerd_history = {}
    /\ lowerd_version = << >>
    /\ kv_pages = 0
    /\ rng_key = 0
    /\ twin = [rng_key |-> 0, token_ids |-> Nothing]
    /\ requests = << >>
    /\ sequence_buffer = EmptySequenceBuffer(mns, mml, ps)
    /\ scheduler_output = Nothing
    /\ start_index = 0
    /\ combined_selected_tokens = << >>
    /\ bufs = Nothing
    /\ last_key = Nothing
    /\ output = Nothing
    /\ tick = 0
    /\ upd = Nothing
    /\ batch_count = 0
    /\ commit = Nothing

(***************************************************************************)
(* SpecAsm: the jitted assembler applied to inputs drawn from bounded      *)
(* sets.  Every row satisfies num_computed + scheduled <= max_model_len    *)
(* (a ledger row holds max_model_len tokens); rows at or beyond num_reqs   *)
(* carry non-zero values, which the assembler must mask.                   *)
(***************************************************************************)
AsmTokenIds(mnr, mml) == [r \in Range0(mnr) |-> [c \in Range0(mml) |-> 100 * (r + 1) + c]]

AsmPageTable(mnr, mppr) ==
    [r \in Range0(mnr) |-> [j \in Range0(mppr) |-> mnr * mppr - 1 - (r * mppr + j)]]

\* scheduled counts: 0 .. MaxSched, one more than a page, and the rest of the row
AsmRowInputs ==
    [s : 0 .. MaxComputed, n : 0 .. MaxSched]
        \cup {[s |-> c, n |-> CfgPageSize + 1] : c \in 0 .. MaxComputed}
        \cup {[s |-> c, n |-> CfgMaxModelLen - c] : c \in 0 .. MaxComputed}

AsmFiller == [s |-> 1, n |-> 2]

AsmInputsOf(nr) ==
    {[num_reqs |-> nr,
      scheduled_full |-> [i \in Range0(CfgMaxNumSeqs) |-> f[i].n],
      num_computed_tokens |-> [i \in Range0(CfgMaxNumSeqs) |-> f[i].s],
      seq_page_table |-> AsmPageTable(CfgMaxNumSeqs,
                                      (CfgMaxModelLen + CfgPageSize - 1) \div CfgPageSize)] :
        f \in {g \in [Range0(CfgMaxNumSeqs) -> AsmRowInputs] :
                  \A i \in Range0(CfgMaxNumSeqs) : i >= nr => g[i] = AsmFiller}}

\* The two worked examples: page_size 16, one request on pages [3, 7]
Example == [page_size |-> 16, max_model_len |-> 32, scheduled |-> 4,
            start_a |-> 5, start_b |-> 14]

ExampleInputs ==
    {[num_reqs |-> 1,
      scheduled_full |-> [i \in Range0(CfgMaxNumSeqs) |-> IF i = 0 THEN Example.scheduled ELSE 0],
      num_computed_tokens |-> [i \in Range0(CfgMaxNumSeqs) |-> IF i = 0 THEN st ELSE 0],
      seq_page_table |-> [r \in Range0(CfgMaxNumSeqs) |->
                            IF r = 0 THEN [j \in Range0(2) |-> IF j = 0 THEN 3 ELSE 7]
                                     ELSE [j \in Range0(2) |-> 2 * r + j + 8]]] :
        st \in {Example.start_a, Example.start_b}}

\* one request of the example configuration whose tokens sit at and
\* between the entries 16 and 32 of its padding ladder
LadderTotals == {16, 17, 32}

LadderInputs ==
    {[num_reqs |-> 1,
      scheduled_full |-> [i \in Range0(CfgMaxNumSeqs) |-> IF i = 0 THEN n ELSE 0],
      num_computed_tokens |-> [i \in Range0(CfgMaxNumSeqs) |-> 0],
      seq_page_table |-> [r \in Range0(CfgMaxNumSeqs) |->
                            IF r = 0 THEN [j \in Range0(2) |-> IF j = 0 THEN 3 ELSE 7]
                                     ELSE [j \in Range0(2) |-> 2 * r + j + 8]]] :
        n \in LadderTotals}

\* one request of a runner with the small pages and a two-entry ladder
\* (16, 32), whose slot-mapping view is narrower for 16 than for 32
WideMaxModelLen == 32

WideTotals == {3, 17, 32}

WideInputs ==
    {[num_reqs |-> 1,
      scheduled_full |-> [i \in Range0(CfgMaxNumSeqs) |-> IF i = 0 THEN n ELSE 0],
      num_computed_tokens |-> [i \in Range0(CfgMaxNumSeqs) |-> 0],
      seq_page_table |-> AsmPageTable(CfgMaxNumSeqs,
                                      (WideMaxModelLen + CfgPageSize - 1) \div CfgPageSize)] :
        n \in WideTotals}

InitAsm ==
    /\ \/ /\ Construct(CfgMaxModelLen, CfgPageSize, CfgMaxNumSeqs, CfgMinInputPad,
                       CfgMetaMaxNumSeqs, TRUE, TRUE)
          /\ \E nr \in 0 .. CfgMaxNumSeqs : fn_in \in AsmInputsOf(nr)
       \/ /\ Construct(WideMaxModelLen, CfgPageSize, CfgMaxNumSeqs, CfgMinInputPad,
                       CfgMetaMaxNumSeqs, TRUE, TRUE)
          /\ fn_in \in WideInputs
       \/ /\ Construct(Example.max_model_len, Example.page_size, CfgMaxNumSeqs, CfgMinInputPad,
                       CfgMetaMaxNumSeqs, TRUE, TRUE)
          /\ fn_in \in ExampleInputs \cup LadderInputs
    /\ pc = "asm_in"

\* one call of self._prepare_inputs_fn
AsmCall ==
    /\ pc = "asm_in"
    /\ bufs' = Some(PrepareInputsFn(fn_in.scheduled_full, fn_in.num_reqs,
                                    fn_in.num_computed_tokens,
                                    AsmTokenIds(max_num_reqs, max_model_len),
                                    fn_in.seq_page_table))
    /\ pc' = "asm_out"
    /\ UNCHANGED << cfg, lowerd_history, lowerd_version, twin, kv_pages, rng_key, requests, sequence_buffer,
                    scheduler_output, start_index, combined_selected_tokens,
                    last_key, output, tick, fn_in, upd, batch_count, commit >>

NextAsm == AsmCall

SpecAsm == InitAsm /\ [][NextAsm]_vars

(***************************************************************************)
(* The window an assembler call was given, read from fn_in.                *)
(***************************************************************************)
\* scheduled tokens of active request r (0 for a row at or beyond num_reqs)
WinScheduled(r) == IF r < fn_in.num_reqs THEN fn_in.scheduled_full[r] ELSE 0

\* sum of the scheduled counts of the requests before r
RECURSIVE WinBefore(_)
WinBefore(r) == IF r <= 0 THEN 0 ELSE WinScheduled(r - 1) + WinBefore(r - 1)

WinTotal == WinBefore(max_num_reqs)

\* the columns of the slot-mapping buffer that hold a slice
ActiveSlices ==
    {k \in Range0(max_padded_slices) :
        k < bufs[1].num_kv_update_slices /\ k < bufs[1].padded_num_slices}

\* the slices that cover flat index t
Covering(t) == {k \in ActiveSlices : bufs[1].sm1[k] <= t /\ t < bufs[1].sm1[k] + bufs[1].sm2[k]}

\* every scheduled token is covered by exactly one slice, at its paged address
EveryTokenCovered ==
    \A r \in Range0(fn_in.num_reqs) :
        \A p \in fn_in.num_computed_tokens[r] ..
                 (fn_in.num_computed_tokens[r] + WinScheduled(r) - 1) :
            LET t == WinBefore(r) + (p - fn_in.num_computed_tokens[r])
            IN  /\ Cardinality(Covering(t)) = 1
                /\ \A k \in Covering(t) :
                      bufs[1].sm0[k] + (t - bufs[1].sm1[k]) =
                          fn_in.seq_page_table[r][p \div page_size] * page_size
                              + (p % page_size)

SliceAt(k) == << bufs[1].sm0[k], bufs[1].sm1[k], bufs[1].sm2[k] >>

IsExample(st) ==
    /\ page_size = Example.page_size
    /\ fn_in.num_reqs = 1
    /\ fn_in.num_computed_tokens[0] = st
    /\ fn_in.scheduled_full[0] = Example.scheduled

ExamplesAsStated ==
    /\ IsExample(Example.start_a) =>
          /\ ActiveSlices = {0}
          /\ SliceAt(0) = << 53, 0, 4 >>
    /\ IsExample(Example.start_b) =>
          /\ ActiveSlices = {0, 1}
          /\ SliceAt(0) = << 62, 0, 2 >>
          /\ SliceAt(1) = << 112, 2, 2 >>

\* C2 as stated: in every window, each scheduled token of request r at
\* position p, with flat index t, is covered by exactly one active slice
\* (dest, src, len), and dest + (t - src) is the paged address of p; the two
\* worked examples give (53, 0, 4), and (62, 0, 2) then (112, 2, 2).
C2_AsStated ==
    pc = "asm_out" => (EveryTokenCovered /\ ExamplesAsStated)

\* C2 amended: the same, for every window whose total scheduled tokens do
\* not exceed max_num_tokens.
C2_SlotMappingCovers ==
    (pc = "asm_out" /\ WinTotal <= max_num_tokens) =>
        (EveryTokenCovered /\ ExamplesAsStated)

\* a window of two requests in which a request spans two pages, and the
\* second worked example
C2_Witness ==
    /\ pc = "asm_out"
    /\ \/ /\ IsExample(Example.start_b)
          /\ bufs[1].num_kv_update_slices = 2
       \/ /\ page_size = CfgPageSize
          /\ fn_in.num_reqs = 2
          /\ WinTotal <= max_num_tokens
          /\ WinScheduled(0) > 0 /\ WinScheduled(1) > 0
          /\ bufs[1].num_kv_update_slices = 4

\* the active request whose contiguous token range contains flat position t
OwnersOf(t) ==
    {r \in Range0(fn_in.num_reqs) :
        WinBefore(r) <= t /\ t < WinBefore(r) + WinScheduled(r)}

\* C3: for every flat position t below the window's total, position_ids[t] is
\* num_computed_tokens[r] + (t - scheduled counts before r) and input_ids[t]
\* is the ledger's token_ids[r][position_ids[t]] for the one active request
\* r whose range contains t; every position at or beyond the total holds 0.
C3_GatherInRowOrder ==
    pc = "asm_out" =>
        \A t \in Range0(max_num_tokens) :
            IF t < WinTotal
            THEN /\ Cardinality(OwnersOf(t)) = 1
                 /\ \A r \in OwnersOf(t) :
                       /\ bufs[1].position_ids_buf[t] =
                              fn_in.num_computed_tokens[r] + (t - WinBefore(r))
                       /\ bufs[1].input_ids_buf[t] =
                              AsmTokenIds(max_num_reqs, max_model_len)[r][bufs[1].position_ids_buf[t]]
            ELSE /\ bufs[1].position_ids_buf[t] = 0
                 /\ bufs[1].input_ids_buf[t] = 0

\* three requests, the middle one with nothing scheduled, and padding left
C3_Witness ==
    /\ pc = "asm_out"
    /\ fn_in.num_reqs = 3
    /\ WinScheduled(0) > 0 /\ WinScheduled(1) = 0 /\ WinScheduled(2) > 0
    /\ WinTotal < max_num_tokens
    /\ bufs[1].input_ids_buf[WinTotal - 1] =
           AsmTokenIds(max_num_reqs, max_model_len)[2][bufs[1].position_ids_buf[WinTotal - 1]]

(***************************************************************************)
(* SpecShape: configurations drawn at construction, compile(), and then    *)
(* execute at the shape key the assembler computes for a window.           *)
(***************************************************************************)
ShapeMaxModelLen == 64

InitShape ==
    /\ \E mns \in 1 .. MaxCfgSeqs, mip \in 1 .. MaxCfgPad, meta \in 1 .. MaxCfgSeqs,
          combined \in BOOLEAN, aot \in BOOLEAN :
          Construct(ShapeMaxModelLen, CfgPageSize, mns, mip, meta, combined, aot)
    /\ pc = "constructed"
    /\ fn_in = [num_reqs |-> 0]

\* eSurgeRunner.compile, called once and then once more
ShapeCompile ==
    /\ pc \in {"constructed", "compiled"}
    /\ ExecutorCompile
    /\ pc' = IF pc = "constructed" THEN "compiled" ELSE "recompiled"
    /\ UNCHANGED << cfg, requests, sequence_buffer, scheduler_output, start_index,
                    combined_selected_tokens, bufs, last_key, output, tick, fn_in,
                    upd, batch_count, commit >>

\* the totals a window may have: 1, each ladder entry and one past it
ShapeTotals ==
    {1} \cup {num_tokens_paddings[i] : i \in 1 .. Len(num_tokens_paddings)}
        \cup {num_tokens_paddings[i] + 1 : i \in 1 .. Len(num_tokens_paddings)}

\* one window: the assembler's shape key, then ExecutorManager.execute
ShapeExecute ==
    /\ pc \in {"constructed", "compiled", "recompiled"}
    /\ \E nr \in 1 .. num_reqs_max_model_len, total \in ShapeTotals :
       \E nt \in {JitPaddedTotal(total)}, rp \in {JitPaddedNumReqs(nr)} :
       \E out \in {ExecutorExecuteOutcome(nt, rp)} :
          /\ last_key' = Some([num_tokens |-> nt, padded_num_reqs |-> rp,
                               num_reqs |-> nr, found |-> ~out.raised,
                               compiled |-> (pc # "constructed"),
                               call |-> out])
          /\ kv_pages' = out.kv_pages
          /\ rng_key' = out.rng_key
          /\ twin' = TwinExecute(nt, rp)
    /\ tick < MaxRuns
    /\ tick' = tick + 1
    /\ UNCHANGED << cfg, lowerd_history, lowerd_version, requests, sequence_buffer,
                    scheduler_output, pc, start_index, combined_selected_tokens, bufs,
                    output, fn_in, upd, batch_count, commit >>

NextShape == ShapeCompile \/ ShapeExecute

SpecShape == InitShape /\ [][NextShape]_vars

\* C1: after compile() has completed, the shape key the assembler computes
\* for any window (1 <= active requests <= num_reqs_max_model_len, total >= 1)
\* is in the executor's cache, for every max_num_reqs and min_input_pad.
C1_KeyAlwaysCompiled ==
    (last_key # Nothing /\ last_key[1].compiled) => last_key[1].found

(***************************************************************************)
(* Dictionaries (requests, req_id_to_index, num_scheduled_tokens) are      *)
(* functions whose domain is the set of keys; the empty one is << >>.      *)
(***************************************************************************)
Restrict(f, S) == IF S = {} THEN << >> ELSE [x \in S |-> f[x]]

DictPut(f, k, v) == [x \in (DOMAIN f) \cup {k} |-> IF x = k THEN v ELSE f[x]]

DictGet(f, k, default) == IF k \in DOMAIN f THEN f[k] ELSE default

Max(S) == CHOOSE x \in S : \A y \in S : y <= x

Min(S) == CHOOSE x \in S : \A y \in S : x <= y

\* sorted(S, reverse=True) as a list
RECURSIVE SortedDescending(_)
SortedDescending(S) ==
    IF S = {} THEN << >> ELSE << Max(S) >> \o SortedDescending(S \ {Max(S)})

(***************************************************************************)
(* CachedRequestState and the ledger (SequenceBuffer) operations that      *)
(* _update_states calls: add_request, remove_request, condense, and the    *)
(* page table's add_row / append_rows_batch / move_row.                    *)
(***************************************************************************)
\* CachedRequestState.num_tokens
NumTokens(rs) == Len(rs.prompt_token_ids) + Len(rs.output_token_ids)

\* SequenceBuffer.num_reqs
NumReqs(sb) == Cardinality(DOMAIN sb.req_id_to_index)

\* a page-table row holding the given page ids, padded
PageRow(pages, mppr) ==
    [j \in Range0(mppr) |-> IF j < Len(pages) THEN pages[j + 1] ELSE PAGE_TABLE_PADDING_VAL]

\* number of page ids a page-table row holds
PageRowLen(row, mppr) == Cardinality({j \in Range0(mppr) : row[j] # PAGE_TABLE_PADDING_VAL})

\* page table append_row: the new ids follow the ones the row holds
PageRowAppend(row, pages, mppr) ==
    LET n == PageRowLen(row, mppr)
    IN  [j \in Range0(mppr) |->
            IF j >= n /\ j < n + Len(pages) THEN pages[j - n + 1] ELSE row[j]]

\* the ledger row of token ids for a request: prompt, then outputs
TokenRow(old, rs, mml) ==
    LET np == Len(rs.prompt_token_ids)
        no == Len(rs.output_token_ids)
    IN  [c \in Range0(mml) |->
            IF c < np THEN rs.prompt_token_ids[c + 1]
            ELSE IF c < np + no THEN rs.output_token_ids[c - np + 1]
            ELSE old[c]]

\* SequenceBuffer.remove_request: the row becomes None; returns the row or None
RemoveRequest(sb, req_id) ==
    IF req_id \notin DOMAIN sb.req_id_to_index
    THEN [sb |-> sb, req_index |-> Nothing]
    ELSE LET r == sb.req_id_to_index[req_id]
         IN  [sb |-> [sb EXCEPT
                        !.req_id_to_index = Restrict(@, (DOMAIN @) \ {req_id}),
                        !.req_ids = [@ EXCEPT ![r + 1] = None]],
              req_index |-> Some(r)]

\* SequenceBuffer.add_request(request, req_index): req_index None means the
\* row after the occupied ones
AddRequest(sb, rs, req_index) ==
    LET r == IF req_index = Nothing THEN NumReqs(sb) ELSE req_index[1]
        mppr == (max_model_len + page_size - 1) \div page_size
    IN  [sb EXCEPT
            !.req_ids = IF r = Len(@) THEN Append(@, rs.req_id)
                        ELSE [@ EXCEPT ![r + 1] = rs.req_id],
            !.req_id_to_index = DictPut(@, rs.req_id, r),
            !.token_ids = [@ EXCEPT ![r] = TokenRow(@, rs, max_model_len)],
            !.num_tokens = [@ EXCEPT ![r] = NumTokens(rs)],
            !.num_computed_tokens = [@ EXCEPT ![r] = rs.num_computed_tokens],
            !.page_table = [@ EXCEPT ![r] = PageRow(rs.page_ids, mppr)]]

\* one move of condense: the request in row last goes to the empty row e
MoveRow(sb, last, e) ==
    LET rid == sb.req_ids[last + 1]
    IN  [sb EXCEPT
            !.req_ids = [@ EXCEPT ![e + 1] = rid, ![last + 1] = None],
            !.req_id_to_index = DictPut(@, rid, e),
            !.token_ids = [@ EXCEPT ![e] = sb.token_ids[last]],
            !.num_tokens = [@ EXCEPT ![e] = sb.num_tokens[last]],
            !.num_computed_tokens = [@ EXCEPT ![e] = sb.num_computed_tokens[last]],
            !.page_table = [@ EXCEPT ![e] = sb.page_table[last]]]

\* the highest row at or below last that is not in the empty list
RECURSIVE SkipEmpty(_, _)
SkipEmpty(empty, last) ==
    IF last >= 0 /\ last \in empty THEN SkipEmpty(empty, last - 1) ELSE last

RECURSIVE CondenseLoop(_, _, _)
CondenseLoop(sb, empty, last) ==
    IF empty = {} THEN sb
    ELSE LET l == SkipEmpty(empty, last)
             e == Min(empty)
         IN  IF e >= l THEN sb
             ELSE CondenseLoop(MoveRow(sb, l, e), empty \ {e}, l - 1)

\* SequenceBuffer.condense(empty_req_indices): the last occupied rows move
\* into the empty rows, lowest empty row first, and req_ids is cut to num_reqs
Condense(sb, empty_req_indices) ==
    LET n == NumReqs(sb)
        empty == {empty_req_indices[k] : k \in 1 .. Len(empty_req_indices)}
        moved == IF n = 0 THEN sb
                 ELSE CondenseLoop(sb, empty, n + Len(empty_req_indices) - 1)
    IN  [moved EXCEPT !.req_ids = SubSeq(@, 1, Min2(n, Len(@)))]

(***************************************************************************)
(* eSurgeRunner._update_states.                                            *)
(***************************************************************************)
\* finished requests stay tracked
DropFinishedNever(reqs, finished_req_ids) == reqs

\* no buffered request counts as unscheduled
UnscheduledNone(cached_req_ids, scheduled_req_ids) == {}

\* for req_id in finished_req_ids: self.requests.pop(req_id, None)
DropFinished(reqs, finished_req_ids) == Restrict(reqs, (DOMAIN reqs) \ finished_req_ids)

\* unscheduled_req_ids = cached_req_ids - scheduled_req_ids
UnscheduledReqIds(cached_req_ids, scheduled_req_ids) == cached_req_ids \ scheduled_req_ids

\* remove_request for each id of a set; the freed rows are collected
RECURSIVE RemoveAll(_, _, _)
RemoveAll(sb, ids, removed) ==
    IF ids = {} THEN [sb |-> sb, removed |-> removed]
    ELSE LET req_id == CHOOSE x \in ids : TRUE
             res == RemoveRequest(sb, req_id)
         IN  RemoveAll(res.sb, ids \ {req_id},
                       IF res.req_index = Nothing THEN removed
                       ELSE removed \cup {res.req_index[1]})

\* self.requests[req_id] = CachedRequestState(...)
NewRequestState(new_req_data) ==
    [req_id |-> new_req_data.req_id,
     prompt_token_ids |-> new_req_data.prompt_token_ids,
     sampling_params |-> new_req_data.sampling_params,
     page_ids |-> new_req_data.page_ids,
     num_computed_tokens |-> new_req_data.num_computed_tokens,
     output_token_ids |-> << >>]

RECURSIVE RegisterNew(_, _, _)
RegisterNew(reqs, scheduled_new_reqs, i) ==
    IF i > Len(scheduled_new_reqs) THEN reqs
    ELSE RegisterNew(DictPut(reqs, scheduled_new_reqs[i].req_id,
                             NewRequestState(scheduled_new_reqs[i])),
                     scheduled_new_reqs, i + 1)

\* the loop over scheduled_cached_reqs; st carries requests, req_ids_to_add,
\* upd_req_indices, upd_num_computed_vals and batched_page_rows
RECURSIVE CachedLoop(_, _, _, _)
CachedLoop(req_data, i, sb, st) ==
    IF i > Len(req_data.req_ids) THEN st
    ELSE LET req_id == req_data.req_ids[i]
         IN  IF req_id \notin DOMAIN st.requests
             THEN CachedLoop(req_data, i + 1, sb, st)
             ELSE LET nct == req_data.num_computed_tokens[i]
                      new_page_ids == req_data.new_page_ids[i]
                      resumed_from_preemption == req_data.resumed_from_preemption[i]
                      req_state == [st.requests[req_id] EXCEPT
                                      !.num_computed_tokens = nct,
                                      !.page_ids = IF ~resumed_from_preemption
                                                   THEN @ \o new_page_ids
                                                   ELSE new_page_ids]
                      reqs == [st.requests EXCEPT ![req_id] = req_state]
                  IN  IF req_id \notin DOMAIN sb.req_id_to_index
                      THEN CachedLoop(req_data, i + 1, sb,
                               [st EXCEPT !.requests = reqs,
                                          !.req_ids_to_add = Append(@, req_id)])
                      ELSE CachedLoop(req_data, i + 1, sb,
                               [st EXCEPT !.requests = reqs,
                                          !.upd_req_indices =
                                              Append(@, sb.req_id_to_index[req_id]),
                                          !.upd_num_computed_vals = Append(@, nct),
                                          !.batched_page_rows = Append(@, new_page_ids)])

\* the page rows are appended, the computed-token counts of the rows stay
BatchUpdateStale(sb, st) ==
    LET K == 1 .. Len(st.upd_req_indices)
        hit(r) == {k \in K : st.upd_req_indices[k] = r}
        mppr == (max_model_len + page_size - 1) \div page_size
    IN  [sb EXCEPT
            !.page_table =
                [r \in DOMAIN @ |-> IF hit(r) = {} THEN @[r]
                                    ELSE PageRowAppend(@[r], st.batched_page_rows[Max(hit(r))],
                                                       mppr)]]

\* num_computed_tokens.at[idx_arr].set(val_arr) and page_table.append_rows_batch
BatchUpdate(sb, st) ==
    LET K == 1 .. Len(st.upd_req_indices)
        hit(r) == {k \in K : st.upd_req_indices[k] = r}
        mppr == (max_model_len + page_size - 1) \div page_size
    IN  [sb EXCEPT
            !.num_computed_tokens =
                [r \in DOMAIN @ |-> IF hit(r) = {} THEN @[r]
                                    ELSE st.upd_num_computed_vals[Max(hit(r))]],
            !.page_table =
                [r \in DOMAIN @ |-> IF hit(r) = {} THEN @[r]
                                    ELSE PageRowAppend(@[r], st.batched_page_rows[Max(hit(r))],
                                                       mppr)]]

\* req_index = removed_req_indices.pop(0): the highest freed row
PickReqIndexHighest(removed_req_indices) ==
    IF Len(removed_req_indices) > 0 THEN Some(removed_req_indices[1]) ELSE Nothing

\* always a fresh row
PickReqIndexNever(removed_req_indices) == Nothing

\* req_index = removed_req_indices.pop() if removed_req_indices else None
PickReqIndex(removed_req_indices) ==
    IF Len(removed_req_indices) > 0
    THEN Some(removed_req_indices[Len(removed_req_indices)])
    ELSE Nothing

\* for req_id in req_ids_to_add: add_request(self.requests[req_id], req_index)
RECURSIVE AddLoop(_, _, _, _, _, _)
AddLoop(reqs, req_ids_to_add, i, sb, removed_req_indices, placed) ==
    IF i > Len(req_ids_to_add)
    THEN [sb |-> sb, removed_req_indices |-> removed_req_indices, placed |-> placed]
    ELSE LET req_index == PickReqIndex(removed_req_indices)
             row == IF req_index = Nothing THEN NumReqs(sb) ELSE req_index[1]
         IN  AddLoop(reqs, req_ids_to_add, i + 1,
                     AddRequest(sb, reqs[req_ids_to_add[i]], req_index),
                     IF Len(removed_req_indices) > 0
                     THEN SubSeq(removed_req_indices, 1, Len(removed_req_indices) - 1)
                     ELSE removed_req_indices,
                     Append(placed, row))

\* the ledger left with its gaps
CondenseNever(sb, removed_req_indices) == sb

\* if removed_req_indices: self.sequence_buffer.condense(removed_req_indices)
CondenseIfRemoved(sb, removed_req_indices) ==
    IF Len(removed_req_indices) > 0 THEN Condense(sb, removed_req_indices) ELSE sb

\* _update_states(scheduler_output): the new requests and ledger, and the
\* handler's locals
UpdateStates(reqs0, sb0, so) ==
    Bind(RemoveAll(sb0, so.finished_req_ids, {}), LAMBDA fin :
    Bind(UnscheduledReqIds(DOMAIN fin.sb.req_id_to_index, DOMAIN so.num_scheduled_tokens),
         LAMBDA unscheduled_req_ids :
    Bind(RemoveAll(fin.sb, unscheduled_req_ids, fin.removed), LAMBDA uns :
    Bind(CachedLoop(so.scheduled_cached_reqs, 1, uns.sb,
                    [requests |-> RegisterNew(DropFinished(reqs0, so.finished_req_ids),
                                              so.scheduled_new_reqs, 1),
                     req_ids_to_add |-> [k \in 1 .. Len(so.scheduled_new_reqs) |->
                                            so.scheduled_new_reqs[k].req_id],
                     upd_req_indices |-> << >>, upd_num_computed_vals |-> << >>,
                     batched_page_rows |-> << >>]), LAMBDA st :
    Bind(SortedDescending(uns.removed), LAMBDA removed_req_indices :
    Bind(AddLoop(st.requests, st.req_ids_to_add, 1, BatchUpdate(uns.sb, st),
                 removed_req_indices, << >>), LAMBDA added :
        [requests |-> st.requests,
         sequence_buffer |-> CondenseIfRemoved(added.sb, added.removed_req_indices),
         locals |-> [removed_req_indices |-> removed_req_indices,
                     unscheduled_req_ids |-> unscheduled_req_ids,
                     req_ids_to_add |-> st.req_ids_to_add,
                     placed |-> added.placed,
                     left |-> added.removed_req_indices,
                     index_before |-> sb0.req_id_to_index,
                     requests_before |-> reqs0,
                     has_changes |-> (unscheduled_req_ids # {}
                                      \/ Len(st.req_ids_to_add) > 0)]]))))))

\* the first new request of the list that fails
\* assert new_req_data.sampling_params is not None, 0 when none does
FirstPooling(scheduled_new_reqs) ==
    IF \E k \in 1 .. Len(scheduled_new_reqs) : IsNothing(scheduled_new_reqs[k].sampling_params)
    THEN CHOOSE k \in 1 .. Len(scheduled_new_reqs) :
             /\ IsNothing(scheduled_new_reqs[k].sampling_params)
             /\ \A j \in 1 .. (k - 1) : ~IsNothing(scheduled_new_reqs[j].sampling_params)
    ELSE 0

\* a variant of UpdateStatesAborted that leaves no trace of the aborted call
UpdateStatesRolledBack(reqs0, sb0, so, k) ==
    [requests |-> reqs0, sequence_buffer |-> sb0]

\* _update_states left by the AssertionError on the k-th new request: the
\* finished and the unscheduled requests are removed, the new requests
\* before the k-th are registered, the ledger is neither updated nor condensed
UpdateStatesAborted(reqs0, sb0, so, k) ==
    Bind(RemoveAll(sb0, so.finished_req_ids, {}), LAMBDA fin :
    Bind(UnscheduledReqIds(DOMAIN fin.sb.req_id_to_index, DOMAIN so.num_scheduled_tokens),
         LAMBDA unscheduled_req_ids :
    Bind(RemoveAll(fin.sb, unscheduled_req_ids, fin.removed), LAMBDA uns :
        [requests |-> RegisterNew(DropFinished(reqs0, so.finished_req_ids),
                                  SubSeq(so.scheduled_new_reqs, 1, k - 1), 1),
         sequence_buffer |-> uns.sb])))

(***************************************************************************)
(* The scheduler decision of a tick.  Per request id the scheduler skips   *)
(* it (an untracked id stays untracked, a buffered one is preempted),      *)
(* reports it finished, admits it as new (also in the tick that finishes   *)
(* it), or continues it as a cached request.  The scheduler keeps its own  *)
(* count of computed tokens: what the runner was told plus what was        *)
(* scheduled in the last tick; a request resumed after preemption starts   *)
(* again from 0 with a fresh page list.  It never schedules a request      *)
(* beyond max_model_len and never more than max_num_reqs requests.         *)
(***************************************************************************)
IdNum(req_id) == CASE req_id = "a" -> 1 [] req_id = "b" -> 2 [] OTHER -> 3

PromptTokens(req_id, plen) == [c \in 1 .. plen |-> 100 * IdNum(req_id) + (c - 1)]

SamplingParams(req_id, plen) == [temperature |-> IdNum(req_id), top_p |-> plen]

PagesNeeded(n) == (n + page_size - 1) \div page_size

\* page ids from .. to-1 of a request's list; a resumed request gets other pages
PageIds(req_id, from, to, resumed) ==
    [k \in 1 .. Max2(to - from, 0) |->
        10 * IdNum(req_id) + (IF resumed THEN 5 ELSE 0) + from + (k - 1)]

Skip == [kind |-> "skip", plen |-> 0, sched |-> 0, nct |-> 0, resumed |-> FALSE]

Finish == [kind |-> "finish", plen |-> 0, sched |-> 0, nct |-> 0, resumed |-> FALSE]

\* a runner with max_model_len 32 and page_size 16 and a request whose
\* prompt has 10 tokens, followed for 5 emitting ticks
LedgerExample == [prompt |-> 10, max_model_len |-> 32, page_size |-> 16, ticks |-> 5]

\* the prompt the scheduler admits under an id: request c has the longest
\* prompt the model accepts, the others a short one (in the runner of
\* LedgerExample its prompt)
PromptLen(req_id) ==
    IF req_id = "c" THEN max_model_len
    ELSE IF max_model_len = LedgerExample.max_model_len THEN LedgerExample.prompt
    ELSE ShortPromptLen

\* a new request is scheduled whole; request b for its first token only
NewDecisions(req_id, kind) ==
    {[kind |-> kind, plen |-> PromptLen(req_id), sched |-> n, nct |-> 0, resumed |-> FALSE] :
        n \in {IF req_id = "b" THEN 1 ELSE PromptLen(req_id)}}

\* what the scheduler has scheduled for the request in the last tick
LastScheduled(req_id) ==
    IF scheduler_output = Nothing THEN 0
    ELSE DictGet(scheduler_output[1].num_scheduled_tokens, req_id, 0)

Decisions(req_id) ==
    IF req_id \notin DOMAIN requests
    THEN {Skip} \cup NewDecisions(req_id, "new") \cup NewDecisions(req_id, "pool")
    ELSE IF req_id \in DOMAIN sequence_buffer.req_id_to_index
    THEN LET nct == requests[req_id].num_computed_tokens + LastScheduled(req_id)
             rest == NumTokens(requests[req_id]) - nct
         IN  {Skip, Finish}
             \cup NewDecisions(req_id, "renew")
             \cup {[kind |-> "cached", plen |-> 0, sched |-> n, nct |-> nct,
                    resumed |-> FALSE] :
                      n \in {m \in {0, rest} : m >= 0 /\ nct + m <= max_model_len}}
    ELSE {Skip, Finish}
         \cup {[kind |-> "cached", plen |-> 0, sched |-> n, nct |-> 0, resumed |-> TRUE] :
                  n \in {m \in {NumTokens(requests[req_id])} : m <= max_model_len}}

\* the requests of the runner that is followed for LongTicks ticks
LongIds == {"a"}

\* a buffered request evicted and resumed within one scheduling step: it is
\* reported as a cached request, flagged resumed, from 0 with a fresh page
\* list, while its row is still in the buffer
ResumedInPlace(req_id) ==
    IF req_id \in DOMAIN requests /\ req_id \in DOMAIN sequence_buffer.req_id_to_index
    THEN {[kind |-> "cached", plen |-> 0, sched |-> n, nct |-> 0, resumed |-> TRUE] :
             n \in {m \in {NumTokens(requests[req_id])} : m <= max_model_len}}
    ELSE {}

\* the scheduler knows the requests ids only; the scheduler of the runner
\* followed for LongTicks ticks also resumes in place
DecisionsAmong(ids, req_id) ==
    IF req_id \notin ids THEN {Skip}
    ELSE Decisions(req_id) \cup (IF ids = LongIds THEN ResumedInPlace(req_id) ELSE {})

\* the order in which the scheduler lists the requests
Order == << "c", "b", "a" >>

RECURSIVE SumOver(_, _)
SumOver(f, S) ==
    IF S = {} THEN 0
    ELSE LET x == CHOOSE y \in S : TRUE IN f[x] + SumOver(f, S \ {x})

\* the SchedulerOutput for the decisions d
SchedulerOutputOf(d) ==
    LET IsNew(req_id) == d[req_id].kind \in {"new", "renew", "pool"}
        IsCached(req_id) == d[req_id].kind = "cached"
        have(req_id) == IF d[req_id].resumed THEN 0 ELSE Len(requests[req_id].page_ids)
        NewReq(req_id) ==
            [req_id |-> req_id,
             prompt_token_ids |-> PromptTokens(req_id, d[req_id].plen),
             sampling_params |-> IF d[req_id].kind = "pool" THEN Nothing
                                 ELSE SamplingParams(req_id, d[req_id].plen),
             page_ids |-> PageIds(req_id, 0, PagesNeeded(d[req_id].sched), FALSE),
             num_computed_tokens |-> 0]
        NewPageIds(req_id) ==
            PageIds(req_id, have(req_id), PagesNeeded(d[req_id].nct + d[req_id].sched),
                    d[req_id].resumed)
    IN  Bind(SelectSeq(Order, IsNew), LAMBDA new_ids :
        Bind(SelectSeq(Order, IsCached), LAMBDA cached_ids :
        Bind({req_id \in ReqIds : IsNew(req_id) \/ IsCached(req_id)}, LAMBDA scheduled :
        Bind(Restrict([req_id \in ReqIds |-> d[req_id].sched], scheduled),
             LAMBDA num_scheduled_tokens :
            [finished_req_ids |-> {req_id \in ReqIds : d[req_id].kind \in {"finish", "renew"}},
             scheduled_new_reqs |-> [k \in 1 .. Len(new_ids) |-> NewReq(new_ids[k])],
             scheduled_cached_reqs |->
                 [req_ids |-> cached_ids,
                  num_computed_tokens |->
                      [k \in 1 .. Len(cached_ids) |-> d[cached_ids[k]].nct],
                  new_page_ids |->
                      [k \in 1 .. Len(cached_ids) |-> NewPageIds(cached_ids[k])],
                  resumed_from_preemption |->
                      [k \in 1 .. Len(cached_ids) |-> d[cached_ids[k]].resumed]],
             num_scheduled_tokens |-> num_scheduled_tokens,
             total_num_scheduled_tokens |-> SumOver(num_scheduled_tokens, scheduled)]))))

(***************************************************************************)
(* eSurgeRunner._prepare_inputs, ExecutorManager.execute and token commit. *)
(***************************************************************************)
\* scheduled_list of _prepare_inputs, before the trailing zeros are trimmed
WindowScheduled(sb, so, start) ==
    [k \in 1 .. Max2(Min2(NumReqs(sb), start + num_reqs_max_model_len) - start, 0) |->
        LET rid == IF start + k <= Len(sb.req_ids) THEN sb.req_ids[start + k] ELSE None
        IN  IF rid # None THEN DictGet(so.num_scheduled_tokens, rid, 0) ELSE 0]

\* while scheduled_list and scheduled_list[-1] == 0: scheduled_list.pop()
RECURSIVE TrimTrailingZeros(_)
TrimTrailingZeros(l) ==
    IF Len(l) > 0 /\ l[Len(l)] = 0 THEN TrimTrailingZeros(SubSeq(l, 1, Len(l) - 1)) ELSE l

\* _prepare_inputs(scheduler_output, start_index): the assembler is given
\* the window's scheduled counts and the ledger's arrays
PrepareInputs(sb, so, start) ==
    Bind(TrimTrailingZeros(WindowScheduled(sb, so, start)), LAMBDA scheduled_list :
    Bind(Array([i \in Range0(max_num_reqs) |->
                   IF i < Len(scheduled_list) THEN scheduled_list[i + 1] ELSE 0]),
         LAMBDA scheduled_full :
        [num_reqs |-> Len(scheduled_list),
         end_index |-> start + Len(scheduled_list),
         scheduled_full |-> scheduled_full,
         fn |-> PrepareInputsFn(scheduled_full, Len(scheduled_list), sb.num_computed_tokens,
                                sb.token_ids, sb.page_table)]))

\* a[:k] of an array a
SliceTo(a, k) == [i \in Range0(Min2(k, Cardinality(DOMAIN a))) |-> a[i]]

\* the whole logits_indices_full
LogitsIndicesWhole(logits_indices_full, padded_num_reqs) == logits_indices_full

\* logits_indices = logits_indices_full[:padded_num_reqs]
LogitsIndicesView(logits_indices_full, padded_num_reqs) ==
    SliceTo(logits_indices_full, padded_num_reqs)

\* ModelRunnerSamplingMetadata.from_sequence_buffer(sequence_buffer, padded_num_reqs):
\* the first padded_num_reqs rows of the ledger's sampling arrays
FromSequenceBuffer(reqs, sb, padded_num_reqs) ==
    LET Param(i, name) ==
            IF i < Len(sb.req_ids) /\ sb.req_ids[i + 1] \in DOMAIN reqs
            THEN reqs[sb.req_ids[i + 1]].sampling_params[name] ELSE 0
    IN  [temperature |-> SliceTo([i \in Range0(max_num_reqs) |-> Param(i, "temperature")],
                                 padded_num_reqs),
         top_p |-> SliceTo([i \in Range0(max_num_reqs) |-> Param(i, "top_p")],
                           padded_num_reqs)]

\* the views and the PagesMetadata _prepare_inputs hands to execute
PrepareInputsViews(fn) ==
    [input_ids_view |-> SliceTo(fn.input_ids_buf, fn.padded_total),
     position_ids_view |-> SliceTo(fn.position_ids_buf, fn.padded_total),
     pages_tables |-> fn.pages_tables_buf,
     slot_mapping |-> << SliceTo(fn.sm0, fn.padded_num_slices),
                         SliceTo(fn.sm1, fn.padded_num_slices),
                         SliceTo(fn.sm2, fn.padded_num_slices) >>,
     context_lens |-> SliceTo(fn.seq_lens_buf, num_reqs_max_model_len),
     query_start_loc |-> SliceTo(fn.query_start_loc_buf, num_reqs_max_model_len + 1),
     logits_indices |-> LogitsIndicesView(fn.logits_indices_full, fn.padded_num_reqs)]

\* an index into an array of length n as jax reads it
JaxIndex(i, n) == IF i < 0 THEN Max2(i + n, 0) ELSE Min2(i, n - 1)

\* the model's hidden state at flat position t
Forward(input_ids_view, position_ids_view, t) == input_ids_view[t] + position_ids_view[t]

\* the sampled tokens of one execute, one per padded request
ExecutorExecute(b) ==
    [i \in Range0(b.padded_num_reqs) |->
        SampleTopP(Forward(b.input_ids_buf, b.position_ids_buf,
                           JaxIndex(b.logits_indices_full[i], b.padded_total)),
                   RowKeys(rng_key, b.padded_num_reqs)[i])]

\* every padded row kept
WindowTokensPadded(selected_token_ids, num_reqs) ==
    [k \in 1 .. Cardinality(DOMAIN selected_token_ids) |-> selected_token_ids[k - 1]]

\* jax.block_until_ready(selected_token_ids)[:num_reqs]
WindowTokens(selected_token_ids, num_reqs) ==
    [k \in 1 .. Min2(num_reqs, Cardinality(DOMAIN selected_token_ids)) |->
        selected_token_ids[k - 1]]

\* jnp.concatenate(combined_selected_tokens, axis=0)
RECURSIVE Concatenate(_)
Concatenate(ll) == IF ll = << >> THEN << >> ELSE Head(ll) \o Concatenate(Tail(ll))

\* a row emits only when it runs past the request's tokens
ValidMaskStrict(active, scheduled_tokens, seq_len, req_num_tokens) ==
    active /\ scheduled_tokens > 0 /\ seq_len > req_num_tokens

\* valid_mask = active_mask & (scheduled_tokens > 0) & (seq_lens >= req_num_tokens)
ValidMask(active, scheduled_tokens, seq_len, req_num_tokens) ==
    active /\ scheduled_tokens > 0 /\ seq_len >= req_num_tokens

\* j = jnp.clip(seq_lens, 0, max_len_m1)
WriteColumn(seq_len) == Min2(Max2(seq_len, 0), max_model_len - 1)

\* the token is written and reported, num_tokens of the row stays
ApplySampledTokensKeepCount(token_ids, num_tokens, selected_token_ids, scheduled_tokens, req_num_tokens, num_computed_tokens, active_mask) ==
    Bind(Array([i \in Range0(max_num_reqs) |-> num_computed_tokens[i] + scheduled_tokens[i]]),
         LAMBDA seq_lens :
    Bind(Array([i \in Range0(max_num_reqs) |->
                   ValidMask(active_mask[i], scheduled_tokens[i], seq_lens[i],
                             req_num_tokens[i])]), LAMBDA valid_mask :
        [token_ids |-> [i \in Range0(max_num_reqs) |->
                           [c \in Range0(max_model_len) |->
                               IF valid_mask[i] /\ c = WriteColumn(seq_lens[i])
                               THEN selected_token_ids[i] ELSE token_ids[i][c]]],
         num_tokens |-> num_tokens,
         out_tokens |-> [i \in Range0(max_num_reqs) |->
                            IF valid_mask[i] THEN selected_token_ids[i] ELSE -1],
         valid_mask |-> valid_mask]))

\* num_tokens of every active row with scheduled tokens grows
ApplySampledTokensCountAll(token_ids, num_tokens, selected_token_ids, scheduled_tokens, req_num_tokens, num_computed_tokens, active_mask) ==
    Bind(Array([i \in Range0(max_num_reqs) |-> num_computed_tokens[i] + scheduled_tokens[i]]),
         LAMBDA seq_lens :
    Bind(Array([i \in Range0(max_num_reqs) |->
                   ValidMask(active_mask[i], scheduled_tokens[i], seq_lens[i],
                             req_num_tokens[i])]), LAMBDA valid_mask :
        [token_ids |-> [i \in Range0(max_num_reqs) |->
                           [c \in Range0(max_model_len) |->
                               IF valid_mask[i] /\ c = WriteColumn(seq_lens[i])
                               THEN selected_token_ids[i] ELSE token_ids[i][c]]],
         num_tokens |-> [i \in Range0(max_num_reqs) |->
                            num_tokens[i] +
                                (IF active_mask[i] /\ scheduled_tokens[i] > 0 THEN 1 ELSE 0)],
         out_tokens |-> [i \in Range0(max_num_reqs) |->
                            IF valid_mask[i] THEN selected_token_ids[i] ELSE -1],
         valid_mask |-> valid_mask]))

\* _apply_sampled_tokens_and_update
ApplySampledTokensAndUpdate(token_ids, num_tokens, selected_token_ids, scheduled_tokens, req_num_tokens, num_computed_tokens, active_mask) ==
    Bind(Array([i \in Range0(max_num_reqs) |-> num_computed_tokens[i] + scheduled_tokens[i]]),
         LAMBDA seq_lens :
    Bind(Array([i \in Range0(max_num_reqs) |->
                   ValidMask(active_mask[i], scheduled_tokens[i], seq_lens[i],
                             req_num_tokens[i])]), LAMBDA valid_mask :
        [token_ids |-> [i \in Range0(max_num_reqs) |->
                           [c \in Range0(max_model_len) |->
                               IF valid_mask[i] /\ c = WriteColumn(seq_lens[i])
                               THEN selected_token_ids[i] ELSE token_ids[i][c]]],
         num_tokens |-> [i \in Range0(max_num_reqs) |->
                            num_tokens[i] + (IF valid_mask[i] THEN 1 ELSE 0)],
         out_tokens |-> [i \in Range0(max_num_reqs) |->
                            IF valid_mask[i] THEN selected_token_ids[i] ELSE -1],
         valid_mask |-> valid_mask]))

\* the loop over req_ids_window that builds the output and appends to the
\* requests' output_token_ids
RECURSIVE OutputLoop(_, _, _, _, _)
OutputLoop(req_ids_window, i, out_tokens, valid_mask, acc) ==
    IF i > Len(req_ids_window) THEN acc
    ELSE LET rid == req_ids_window[i]
         IN  IF rid = None
             THEN OutputLoop(req_ids_window, i + 1, out_tokens, valid_mask, acc)
             ELSE IF valid_mask[i - 1]
             THEN OutputLoop(req_ids_window, i + 1, out_tokens, valid_mask,
                      [req_ids |-> Append(acc.req_ids, rid),
                       sampled_token_ids |->
                           Append(acc.sampled_token_ids, << out_tokens[i - 1] >>),
                       requests |->
                           IF rid \in DOMAIN acc.requests
                           THEN [acc.requests EXCEPT
                                    ![rid].output_token_ids = Append(@, out_tokens[i - 1])]
                           ELSE acc.requests])
             ELSE OutputLoop(req_ids_window, i + 1, out_tokens, valid_mask,
                      [acc EXCEPT !.req_ids = Append(@, rid),
                                  !.sampled_token_ids = Append(@, << >>)])

\* _process_sampled_tokens(selected_token_ids, scheduler_output)
ProcessSampledTokens(reqs, sb, selected, so) ==
    Bind(SubSeq(sb.req_ids, 1, Min2(NumReqs(sb), Len(sb.req_ids))), LAMBDA req_ids_window :
    LET rid(i) == IF i < Len(req_ids_window) THEN req_ids_window[i + 1] ELSE None
        scheduled_tokens_arr ==
            Array([i \in Range0(max_num_reqs) |->
                      IF rid(i) # None THEN DictGet(so.num_scheduled_tokens, rid(i), 0) ELSE 0])
        req_num_tokens_arr ==
            Array([i \in Range0(max_num_reqs) |->
                      IF rid(i) # None /\ rid(i) \in DOMAIN reqs
                      THEN NumTokens(reqs[rid(i)]) ELSE 0])
        active_mask == Array([i \in Range0(max_num_reqs) |-> rid(i) # None])
        padded == Array([i \in Range0(Max2(max_num_reqs, Len(selected))) |->
                            IF i < Len(selected) THEN selected[i + 1] ELSE 0])
    IN  Bind(ApplySampledTokensAndUpdate(sb.token_ids, sb.num_tokens, padded,
                                         scheduled_tokens_arr, req_num_tokens_arr,
                                         sb.num_computed_tokens, active_mask), LAMBDA res :
        Bind(OutputLoop(req_ids_window, 1, res.out_tokens, res.valid_mask,
                        [req_ids |-> << >>, sampled_token_ids |-> << >>,
                         requests |-> reqs]), LAMBDA out :
            [sequence_buffer |-> [sb EXCEPT !.token_ids = res.token_ids,
                                            !.num_tokens = res.num_tokens],
             requests |-> out.requests,
             output |-> [req_ids |-> out.req_ids,
                         req_id_to_index |-> sb.req_id_to_index,
                         sampled_token_ids |-> out.sampled_token_ids]])))

(***************************************************************************)
(* Spec: one runner, compile(), and ticks of execute_model.  A tick is     *)
(* followed step by step: lifecycle sync, one step per window, commit.     *)
(***************************************************************************)
TickMaxNumSeqs == 2

\* metadata.get_max_num_seqs() is 1 (a window holds one row) or 2
Init ==
    /\ \E meta \in {1, TickMaxNumSeqs} :
          Construct(CfgMaxModelLen, CfgPageSize, TickMaxNumSeqs, CfgMinInputPad,
                    meta, TRUE, TRUE)
    /\ pc = "idle"
    /\ fn_in = [num_reqs |-> 0]

\* eSurgeRunner.compile()
RunnerCompile ==
    /\ pc = "idle"
    /\ tick = 0
    /\ lowerd_history = {}
    /\ ExecutorCompile
    /\ UNCHANGED << cfg, requests, sequence_buffer, scheduler_output, pc, start_index,
                    combined_selected_tokens, bufs, last_key, output, tick, fn_in,
                    upd, batch_count, commit >>

\* the result of a tick without tokens carries the ledger's row map
EmptyOutputWithRowMap ==
    [req_ids |-> << >>, req_id_to_index |-> sequence_buffer.req_id_to_index,
     sampled_token_ids |-> << >>]

\* ModelRunnerOutput(req_ids=[], req_id_to_index={}, sampled_token_ids=[], ...)
EmptyOutput == [req_ids |-> << >>, req_id_to_index |-> << >>, sampled_token_ids |-> << >>]

\* execute_model up to the window loop: _update_states, and the early return
\* of a tick without scheduled tokens
ExecuteModelBeginFor(ids, max_ticks) ==
    /\ pc = "idle"
    /\ tick < max_ticks
    /\ \E da \in DecisionsAmong(ids, "a"), db \in DecisionsAmong(ids, "b"),
          dc \in DecisionsAmong(ids, "c") :
       \E so \in {SchedulerOutputOf([req_id \in ReqIds |->
                      CASE req_id = "a" -> da [] req_id = "b" -> db [] OTHER -> dc])} :
       \E k \in {FirstPooling(so.scheduled_new_reqs)} :
              /\ Cardinality(DOMAIN so.num_scheduled_tokens) <= max_num_reqs
              /\ scheduler_output' = Some(so)
              /\ commit' = Nothing
              /\ IF k > 0
                 THEN \E res \in {UpdateStatesAborted(requests, sequence_buffer, so, k)} :
                      /\ requests' = res.requests
                      /\ sequence_buffer' = res.sequence_buffer
                      /\ upd' = Nothing
                      /\ pc' = "raised"
                      /\ UNCHANGED << output, start_index, combined_selected_tokens,
                                      batch_count >>
                 ELSE \E res \in {UpdateStates(requests, sequence_buffer, so)} :
                      /\ requests' = res.requests
                      /\ sequence_buffer' = res.sequence_buffer
                      /\ upd' = Some(res.locals)
                      /\ IF so.total_num_scheduled_tokens = 0
                         THEN /\ output' = Some(EmptyOutput)
                              /\ UNCHANGED << pc, start_index, combined_selected_tokens,
                                              batch_count >>
                         ELSE /\ pc' = "window"
                              /\ start_index' = 0
                              /\ combined_selected_tokens' = << >>
                              /\ batch_count' = 0
                              /\ UNCHANGED output
    /\ tick' = tick + 1
    /\ UNCHANGED << cfg, lowerd_history, lowerd_version, twin, kv_pages, rng_key, bufs, last_key, fn_in >>

ExecuteModelBegin == ExecuteModelBeginFor(ReqIds, MaxTicks)

\* one iteration of the window loop: _prepare_inputs, then execute, whose
\* lookup raises KeyError for a key that was not compiled and whose kernel
\* call may be interrupted before it returns
Window ==
    /\ pc = "window"
    /\ start_index < NumReqs(sequence_buffer)
    /\ batch_count < MaxWindows
    /\ \E prep \in {PrepareInputs(sequence_buffer, scheduler_output[1], start_index)} :
       \E found \in {HasCompiledKey(prep.fn.padded_total, prep.fn.padded_num_reqs)} :
       \E interrupted \in {FALSE} \cup {found} :
           /\ bufs' = Some(prep.fn)
           /\ batch_count' = batch_count + 1
           /\ last_key' = Some([num_tokens |-> prep.fn.padded_total,
                                padded_num_reqs |-> prep.fn.padded_num_reqs,
                                num_reqs |-> prep.num_reqs,
                                found |-> found,
                                compiled |-> (lowerd_history # {})])
           /\ IF found /\ ~interrupted
              THEN /\ combined_selected_tokens' =
                          Append(combined_selected_tokens,
                                 WindowTokens(ExecutorExecute(prep.fn), prep.num_reqs))
                   /\ kv_pages' = kv_pages + 1
                   /\ rng_key' = CarriedKey(rng_key)
                   /\ start_index' = prep.end_index
                   /\ UNCHANGED pc
              ELSE /\ pc' = "raised"
                   /\ UNCHANGED << combined_selected_tokens, kv_pages, rng_key, start_index >>
    /\ UNCHANGED << cfg, lowerd_history, lowerd_version, twin, requests, sequence_buffer, scheduler_output,
                    output, tick, fn_in, upd, commit >>

\* the loop is left and _process_sampled_tokens commits the tick
Commit ==
    /\ pc = "window"
    /\ ~(start_index < NumReqs(sequence_buffer))
    /\ \E res \in {ProcessSampledTokens(requests, sequence_buffer,
                                        Concatenate(combined_selected_tokens),
                                        scheduler_output[1])} :
           /\ sequence_buffer' = res.sequence_buffer
           /\ requests' = res.requests
           /\ output' = Some(res.output)
           /\ commit' = Some([sequence_buffer |-> sequence_buffer, requests |-> requests])
    /\ pc' = "idle"
    /\ UNCHANGED << cfg, lowerd_history, lowerd_version, twin, kv_pages, rng_key, scheduler_output, start_index,
                    combined_selected_tokens, bufs, last_key, tick, fn_in, upd,
                    batch_count >>

Next == RunnerCompile \/ ExecuteModelBegin \/ Window \/ Commit

Spec == Init /\ [][Next]_vars

(***************************************************************************)
(* SpecLong: the same runner, also in the configuration of LedgerExample,  *)
(* with two requests followed for more ticks: long enough for a request to *)
(* be continued, preempted and resumed, and to emit in LongTicks ticks.    *)
(***************************************************************************)
InitLong ==
    /\ \E c \in {[max_model_len |-> CfgMaxModelLen, page_size |-> CfgPageSize],
                  [max_model_len |-> LedgerExample.max_model_len,
                   page_size |-> LedgerExample.page_size]} :
          Construct(c.max_model_len, c.page_size, TickMaxNumSeqs, CfgMinInputPad,
                    TickMaxNumSeqs, TRUE, TRUE)
    /\ pc = "idle"
    /\ fn_in = [num_reqs |-> 0]

LongBegin == ExecuteModelBeginFor(LongIds, LongTicks)

NextLong == RunnerCompile \/ LongBegin \/ Window \/ Commit

SpecLong == InitLong /\ [][NextLong]_vars

(***************************************************************************)
(* Readers of a tick.  Between lifecycle sync and commit (and after a tick *)
(* that returned early) commit is None; after a commit it holds the ledger *)
(* and the requests the commit was called on, and the state holds its      *)
(* results.                                                                *)
(***************************************************************************)
Synced == upd # Nothing /\ commit = Nothing

Committed == pc = "idle" /\ commit # Nothing

\* the request in ledger row k
RowReq(k) == sequence_buffer.req_ids[k + 1]

\* the occupied rows
Rows == Range0(NumReqs(sequence_buffer))

\* tokens scheduled this tick for the request in row k
RowScheduled(k) == DictGet(scheduler_output[1].num_scheduled_tokens, RowReq(k), 0)

\* row k has an entry in the tick's output, and it carries a token
Emits(k) ==
    /\ k < Len(output[1].sampled_token_ids)
    /\ output[1].sampled_token_ids[k + 1] # << >>

\* num_computed_tokens + scheduled_tokens of row k when commit was called
RowSeqLen(k) == commit[1].sequence_buffer.num_computed_tokens[k] + RowScheduled(k)

\* C4: in token commit an occupied ledger row emits a token if and only if
\* its scheduled token count is > 0 and num_computed_tokens + scheduled
\* tokens >= the request's num_tokens (prompt plus outputs so far).
C4_EmitIffComplete ==
    Committed =>
        \A k \in Rows :
            Emits(k) <=> (/\ RowScheduled(k) > 0
                          /\ RowSeqLen(k) >= NumTokens(commit[1].requests[RowReq(k)]))

\* one tick in which a row emits, a row with scheduled tokens is still
\* short of its prompt, or a row with nothing scheduled stays silent
C4_Witness ==
    /\ Committed
    /\ NumReqs(sequence_buffer) = 2
    /\ \E k \in Rows : Emits(k)
    /\ \E k \in Rows :
          /\ ~Emits(k)
          /\ RowScheduled(k) > 0
          /\ RowSeqLen(k) < NumTokens(commit[1].requests[RowReq(k)])

\* a committed tick in which a row with nothing scheduled emits nothing
C4_ZeroScheduledRow ==
    /\ Committed
    /\ \E k \in Rows : RowScheduled(k) = 0 /\ ~Emits(k)

\* C5 as stated: for every row that emits a token in a tick, the sampled
\* token is in the ledger's token_ids at column num_computed_tokens +
\* scheduled_tokens of that row, the ledger's num_tokens of the row has
\* grown by exactly 1, and the token is appended to output_token_ids.
C5_TokenWrittenAtSeqLen ==
    Committed =>
        \A k \in Rows :
            Emits(k) =>
                LET tok == output[1].sampled_token_ids[k + 1][1]
                    before == commit[1]
                IN  /\ RowSeqLen(k) \in Range0(max_model_len)
                    /\ sequence_buffer.token_ids[k][RowSeqLen(k)] = tok
                    /\ sequence_buffer.num_tokens[k] = before.sequence_buffer.num_tokens[k] + 1
                    /\ requests[RowReq(k)].output_token_ids =
                           Append(before.requests[RowReq(k)].output_token_ids, tok)

\* the same for the rows whose column exists (seq_len < max_model_len); this
\* is what the code does for them
C5_BelowMaxModelLen ==
    Committed =>
        \A k \in Rows :
            (Emits(k) /\ RowSeqLen(k) < max_model_len) =>
                LET tok == output[1].sampled_token_ids[k + 1][1]
                    before == commit[1]
                IN  /\ sequence_buffer.token_ids[k][RowSeqLen(k)] = tok
                    /\ sequence_buffer.num_tokens[k] = before.sequence_buffer.num_tokens[k] + 1
                    /\ requests[RowReq(k)].output_token_ids =
                           Append(before.requests[RowReq(k)].output_token_ids, tok)

\* C6: the tick's output has exactly one entry per occupied ledger row, in
\* ascending row order: req_ids[k] is the request held in row k and
\* sampled_token_ids[k] is empty or the k-th token of the concatenated
\* per-window slices, which has as many rows as the ledger has occupied
\* rows, also when the rows were processed in two or more windows.
C6_OutputInRowOrder ==
    Committed =>
        LET n == NumReqs(sequence_buffer)
            sel == Concatenate(combined_selected_tokens)
            o == output[1]
        IN  /\ Len(o.req_ids) = n
            /\ Len(o.sampled_token_ids) = n
            /\ Len(sel) = n
            /\ \A k \in Rows :
                  /\ o.req_ids[k + 1] = RowReq(k)
                  /\ sequence_buffer.req_id_to_index[o.req_ids[k + 1]] = k
                  /\ o.sampled_token_ids[k + 1] \in {<< >>, << sel[k + 1] >>}

\* two rows processed in two windows, listed by the scheduler in the other
\* order, both emitting
C6_Witness ==
    /\ Committed
    /\ Len(combined_selected_tokens) = 2
    /\ Len(output[1].req_ids) = 2
    /\ Emits(0) /\ Emits(1)
    /\ \E i, j \in 1 .. Len(Order) :
          /\ i < j
          /\ Order[i] = RowReq(1)
          /\ Order[j] = RowReq(0)

(***************************************************************************)
(* Request lifecycle: the state right after _update_states, compared with  *)
(* the state before it (kept in upd) and the scheduler's report.           *)
(***************************************************************************)
SeqSet(q) == {q[k] : k \in 1 .. Len(q)}

\* the ids the scheduler registered as new in this tick
NewReqIds == {scheduler_output[1].scheduled_new_reqs[k].req_id :
                 k \in 1 .. Len(scheduler_output[1].scheduled_new_reqs)}

\* the ids the scheduler reported as cached requests in this tick
CachedReqIds == SeqSet(scheduler_output[1].scheduled_cached_reqs.req_ids)

\* the ids whose row _update_states removed in this tick
RemovedIds == scheduler_output[1].finished_req_ids \cup upd[1].unscheduled_req_ids

\* tracked but not in the buffer before this tick's _update_states
WasPreempted(req_id) ==
    /\ req_id \in DOMAIN upd[1].requests_before
    /\ req_id \notin DOMAIN upd[1].index_before

SameHistory(rs, old) ==
    /\ rs.prompt_token_ids = old.prompt_token_ids
    /\ rs.sampling_params = old.sampling_params
    /\ rs.output_token_ids = old.output_token_ids

\* ledger row r holds the prompt and then the outputs of rs
RowHolds(r, rs) ==
    /\ sequence_buffer.num_tokens[r] = NumTokens(rs)
    /\ \A c \in Range0(NumTokens(rs)) :
          sequence_buffer.token_ids[r][c] =
              (rs.prompt_token_ids \o rs.output_token_ids)[c + 1]

\* C7: after every _update_states call the id-to-row map is injective, holds
\* no id removed in this tick unless that id was added again in the same
\* tick, and the occupied rows are exactly 0..num_reqs-1, each row naming
\* the id that maps to it
C7_LedgerCompact ==
    upd # Nothing =>
        LET idx == sequence_buffer.req_id_to_index
            n == NumReqs(sequence_buffer)
        IN  /\ \A x \in DOMAIN idx : \A y \in DOMAIN idx : idx[x] = idx[y] => x = y
            /\ \A x \in RemovedIds :
                  x \in DOMAIN idx => x \in SeqSet(upd[1].req_ids_to_add)
            /\ {idx[x] : x \in DOMAIN idx} = Range0(n)
            /\ Len(sequence_buffer.req_ids) = n
            /\ \A k \in 1 .. n :
                  /\ sequence_buffer.req_ids[k] \in DOMAIN idx
                  /\ idx[sequence_buffer.req_ids[k]] = k - 1

\* a tick whose removal left a gap that condense closed by moving a request
C7_Witness ==
    /\ Synced
    /\ Len(upd[1].left) > 0
    /\ \E x \in DOMAIN sequence_buffer.req_id_to_index :
          /\ x \in DOMAIN upd[1].index_before
          /\ x \notin RemovedIds
          /\ sequence_buffer.req_id_to_index[x] < upd[1].index_before[x]

\* C8: after _update_states every id reported finished in this tick and not
\* registered as new in the same tick is in neither the tracked-request map
\* nor the id-to-row map, and the row it held is among the rows the add loop
\* of the same tick may reuse
C8_FinishedDropped ==
    upd # Nothing =>
        \A x \in scheduler_output[1].finished_req_ids \ NewReqIds :
            /\ x \notin DOMAIN requests
            /\ x \notin DOMAIN sequence_buffer.req_id_to_index
            /\ x \in DOMAIN upd[1].index_before =>
                  upd[1].index_before[x] \in SeqSet(upd[1].removed_req_indices)

\* a finished request leaves the buffer and its row goes to a request added
\* in the same tick
C8_Witness ==
    /\ Synced
    /\ \E x \in scheduler_output[1].finished_req_ids \ NewReqIds :
          /\ x \in DOMAIN upd[1].index_before
          /\ Len(upd[1].placed) > 0
          /\ upd[1].placed[1] = upd[1].index_before[x]

\* C9: a buffered request absent from the scheduled set leaves the buffer
\* and stays tracked with prompt, sampling parameters and outputs as they
\* were; it keeps them for as long as it is out of the buffer; reported as a
\* cached request it is in the buffer again and its row holds that history;
\* and only ids reported finished leave the tracked-request map
C9_PreemptedKeepsHistory ==
    upd # Nothing =>
        LET so == scheduler_output[1]
            u == upd[1]
            idx == sequence_buffer.req_id_to_index
        IN  /\ \A x \in (DOMAIN u.index_before)
                           \ (DOMAIN so.num_scheduled_tokens \cup so.finished_req_ids) :
                  /\ x \notin DOMAIN idx
                  /\ x \in DOMAIN requests
                  /\ SameHistory(requests[x], u.requests_before[x])
            /\ \A x \in {y \in DOMAIN u.requests_before : WasPreempted(y)}
                           \ (so.finished_req_ids \cup NewReqIds) :
                  /\ x \in DOMAIN requests
                  /\ (Synced \/ x \notin DOMAIN idx) =>
                        SameHistory(requests[x], u.requests_before[x])
                  /\ x \in CachedReqIds =>
                        /\ x \in DOMAIN idx
                        /\ Synced => RowHolds(idx[x], u.requests_before[x])
            /\ (DOMAIN u.requests_before) \ (DOMAIN requests) \subseteq so.finished_req_ids

\* a preempted request that had produced a token is back in the buffer
C9_Witness ==
    /\ Synced
    /\ \E x \in CachedReqIds :
          /\ WasPreempted(x)
          /\ Len(upd[1].requests_before[x].output_token_ids) > 0
          /\ x \in DOMAIN sequence_buffer.req_id_to_index

\* a buffered request has just been preempted
C9_PreemptWitness ==
    /\ Synced
    /\ \E x \in upd[1].unscheduled_req_ids :
          /\ Len(requests[x].output_token_ids) > 0
          /\ x \notin DOMAIN sequence_buffer.req_id_to_index

\* C10: the requests added in a tick take the rows freed in that tick for as
\* long as there are freed rows, and the number of occupied rows, the
\* highest row in use plus one and the length of the row list never exceed
\* max_num_reqs
C10_FreedRowReused ==
    upd # Nothing =>
        LET u == upd[1]
            idx == sequence_buffer.req_id_to_index
        IN  /\ \A k \in 1 .. Min2(Len(u.removed_req_indices), Len(u.req_ids_to_add)) :
                  u.placed[k] \in SeqSet(u.removed_req_indices)
            /\ NumReqs(sequence_buffer) <= max_num_reqs
            /\ Len(sequence_buffer.req_ids) <= max_num_reqs
            /\ \A x \in DOMAIN idx : idx[x] + 1 <= max_num_reqs

\* a full buffer loses one request and gains another in the same tick
C10_Witness ==
    /\ Synced
    /\ Cardinality(DOMAIN upd[1].index_before) = max_num_reqs
    /\ max_num_reqs > 1
    /\ Len(upd[1].removed_req_indices) > 0
    /\ Len(upd[1].req_ids_to_add) > 0
    /\ upd[1].placed[1] \in SeqSet(upd[1].removed_req_indices)
    /\ NumReqs(sequence_buffer) = max_num_reqs
    /\ SeqSet(upd[1].req_ids_to_add) \cap RemovedIds = {}

(***************************************************************************)
(* num_computed_tokens across ticks.                                       *)
(***************************************************************************)
\* the cached requests the scheduler flagged as resumed from preemption
ResumedIds ==
    LET c == scheduler_output[1].scheduled_cached_reqs
    IN  {c.req_ids[k] : k \in {j \in 1 .. Len(c.req_ids) : c.resumed_from_preemption[j]}}

\* the requests tracked before and after this tick's _update_states that
\* the tick did not register anew
KeptIds == ((DOMAIN requests) \cap (DOMAIN upd[1].requests_before)) \ NewReqIds

\* the ledger row of a buffered request carries the tracked count
LedgerCountMatches(x) ==
    x \in DOMAIN sequence_buffer.req_id_to_index =>
        sequence_buffer.num_computed_tokens[sequence_buffer.req_id_to_index[x]] =
            requests[x].num_computed_tokens

RowOf(x) == sequence_buffer.req_id_to_index[x]

\* C12: for every buffered request the ledger's num_tokens of its row is
\* the prompt length plus the number of tokens in output_token_ids, and a
\* commit appends each emitted token at the end of the request's
\* output_token_ids and leaves the outputs of the other requests as they
\* were, so that the outputs are in emission order.
C12_NumTokensIsPromptPlusOutputs ==
    /\ \A x \in DOMAIN sequence_buffer.req_id_to_index :
          /\ x \in DOMAIN requests
          /\ sequence_buffer.num_tokens[RowOf(x)] =
                 Len(requests[x].prompt_token_ids) + Len(requests[x].output_token_ids)
    /\ Committed =>
          /\ DOMAIN requests = DOMAIN commit[1].requests
          /\ \A x \in DOMAIN requests :
                requests[x].output_token_ids =
                    IF x \in DOMAIN sequence_buffer.req_id_to_index /\ Emits(RowOf(x))
                    THEN Append(commit[1].requests[x].output_token_ids,
                                output[1].sampled_token_ids[RowOf(x) + 1][1])
                    ELSE commit[1].requests[x].output_token_ids

\* the runner of LedgerExample after the fifth emitting tick of the request
\* with the prompt of 10 tokens: num_tokens is 15 and there are 5 outputs
C12_Witness ==
    /\ Committed
    /\ max_model_len = LedgerExample.max_model_len
    /\ page_size = LedgerExample.page_size
    /\ tick = LedgerExample.ticks
    /\ \E x \in DOMAIN sequence_buffer.req_id_to_index :
          /\ Len(requests[x].prompt_token_ids) = LedgerExample.prompt
          /\ Emits(RowOf(x))
          /\ Len(requests[x].output_token_ids) = LedgerExample.ticks
          /\ sequence_buffer.num_tokens[RowOf(x)] =
                 LedgerExample.prompt + LedgerExample.ticks
          /\ sequence_buffer.num_tokens[RowOf(x)] = 15

(***************************************************************************)
(* A tick without scheduled tokens.                                        *)
(***************************************************************************)
\* this step is an execute_model call whose scheduler output has zero total
\* scheduled tokens
ZeroTokenTick ==
    /\ tick' = tick + 1
    /\ scheduler_output'[1].total_num_scheduled_tokens = 0

\* C13: an execute_model call with zero total scheduled tokens performs the
\* lifecycle sync and returns the empty result (no request ids, no sampled
\* tokens, empty row map); no inputs are assembled and nothing is executed;
\* requests and ledger are exactly what _update_states left; every request
\* still tracked keeps its output history, every request still buffered
\* keeps the token ids and the token count of its row; KV cache, RNG key
\* and executable cache are unchanged.
C13_ZeroTokenTickOnlySyncs ==
    [][ZeroTokenTick =>
          LET synced == UpdateStates(requests, sequence_buffer, scheduler_output'[1])
          IN  /\ output' = Some(EmptyOutput)
              /\ output'[1].req_ids = << >>
              /\ output'[1].sampled_token_ids = << >>
              /\ DOMAIN output'[1].req_id_to_index = {}
              /\ pc' = "idle"
              /\ UNCHANGED << bufs, last_key, batch_count, combined_selected_tokens,
                              start_index, kv_pages, rng_key, lowerd_history,
                              lowerd_version >>
              /\ requests' = synced.requests
              /\ sequence_buffer' = synced.sequence_buffer
              /\ \A x \in (DOMAIN requests) \cap (DOMAIN requests') :
                    requests'[x].output_token_ids = requests[x].output_token_ids
              /\ \A x \in (DOMAIN sequence_buffer.req_id_to_index)
                               \cap (DOMAIN sequence_buffer'.req_id_to_index) :
                    LET r == sequence_buffer.req_id_to_index[x]
                        q == sequence_buffer'.req_id_to_index[x]
                    IN  /\ sequence_buffer'.num_tokens[q] = sequence_buffer.num_tokens[r]
                        /\ \A c \in Range0(sequence_buffer.num_tokens[r]) :
                              c < max_model_len =>
                                  sequence_buffer'.token_ids[q][c] =
                                      sequence_buffer.token_ids[r][c]]_vars

\* a tick without tokens has returned the empty result while a request with
\* an output history sits in the buffer, after a tick that executed
C13_Witness ==
    /\ Synced
    /\ pc = "idle"
    /\ scheduler_output[1].total_num_scheduled_tokens = 0
    /\ output = Some(EmptyOutput)
    /\ kv_pages > 0
    /\ rng_key > 0
    /\ \E x \in DOMAIN sequence_buffer.req_id_to_index :
          Len(requests[x].output_token_ids) > 0

\* C14: the output of a tick has one entry for every occupied row, in row
\* order; for every occupied row that does not emit a token the entry is the
\* empty list (neither the -1 sentinel nor a token), and the commit leaves
\* the row's token_ids, its num_tokens and the request's output_token_ids
\* as they were.
C14_SilentRowUntouched ==
    Committed =>
        /\ Len(output[1].sampled_token_ids) = NumReqs(sequence_buffer)
        /\ Len(output[1].req_ids) = NumReqs(sequence_buffer)
        /\ \A k \in Rows :
              /\ output[1].req_ids[k + 1] = RowReq(k)
              /\ ~Emits(k) =>
                    /\ output[1].sampled_token_ids[k + 1] = << >>
                    /\ sequence_buffer.token_ids[k] = commit[1].sequence_buffer.token_ids[k]
                    /\ sequence_buffer.num_tokens[k] = commit[1].sequence_buffer.num_tokens[k]
                    /\ requests[RowReq(k)].output_token_ids =
                           commit[1].requests[RowReq(k)].output_token_ids

\* a committed tick in which one row emits and another row, which had
\* tokens scheduled but is still in its prompt, stays silent
C14_Witness ==
    /\ Committed
    /\ \E k \in Rows : Emits(k)
    /\ \E k \in Rows :
          /\ ~Emits(k)
          /\ RowScheduled(k) > 0
          /\ output[1].sampled_token_ids[k + 1] = << >>

(***************************************************************************)
(* The executable cache: execute at a missing key, compile called again.   *)
(***************************************************************************)
\* this step is a call of ExecutorManager.execute
ExecuteStep == tick' = tick + 1 /\ last_key' # Nothing

\* the key of that call has no executable in the cache
KeyMissing == ~HasCompiledKey(last_key'[1].num_tokens, last_key'[1].padded_num_reqs)

\* this step is the second call of compile, with the paddings of the first
SecondCompile == pc = "compiled" /\ pc' = "recompiled"

\* C15: ExecutorManager.execute called for a (token count, padded request
\* count) pair without a cached executable fails with the lookup error
\* before a stage runs: KV cache, RNG key and executable cache are
\* unchanged; in split mode neither the hidden-state stage (which returns
\* the KV cache) nor the token stage (which returns the RNG key) has run.
C15_MissingKeyRaises ==
    [][(ExecuteStep /\ KeyMissing) =>
          /\ ~last_key'[1].found
          /\ UNCHANGED << kv_pages, rng_key, lowerd_history, lowerd_version >>]_vars

\* in split AOT mode, after compile, an execute has failed at a missing key
\* and no stage has run since construction
C15_Witness ==
    /\ last_key # Nothing
    /\ ~last_key[1].found
    /\ last_key[1].compiled
    /\ ~use_combined_forward
    /\ use_aot_forward
    /\ lowerd_history # {}
    /\ kv_pages = 0
    /\ rng_key = 0

\* C16 as stated: a second call of compile with the same token paddings and
\* request limits is a no-op: no executable under an existing key is
\* rebuilt, key set and cached executables are unchanged, KV cache and RNG
\* key are what they were after the first call, in combined and split modes
\* and in AOT and lazy modes.
C16_SecondCompileNoOp ==
    [][SecondCompile =>
          UNCHANGED << lowerd_history, lowerd_version, twin, kv_pages, rng_key >>]_vars

\* C17 as stated: in lazy (non-AOT) mode an execute at a key that has not
\* been built performs the build, stores the executable under the key and
\* returns a result.
C17_LazyBuildsOnFirstUse ==
    (last_key # Nothing /\ ~use_aot_forward) =>
        /\ last_key[1].found
        /\ HasCompiledKey(last_key[1].num_tokens, last_key[1].padded_num_reqs)

(***************************************************************************)
(* Slot mapping: requests without scheduled tokens.                        *)
(***************************************************************************)
\* pages the scheduled tokens of request r lie on
PagesSpanned(r) ==
    IF WinScheduled(r) = 0 THEN 0
    ELSE (fn_in.num_computed_tokens[r] + WinScheduled(r) - 1) \div page_size
             - fn_in.num_computed_tokens[r] \div page_size + 1

RECURSIVE PagesBefore(_)
PagesBefore(r) == IF r <= 0 THEN 0 ELSE PagesSpanned(r - 1) + PagesBefore(r - 1)

\* C18: in the slot mapping a request with zero scheduled tokens contributes
\* zero pages and no slice, whatever its num_computed_tokens: the number of
\* slices is the number of pages the requests with scheduled tokens span,
\* every slice lies within the flat range of a request with scheduled
\* tokens, and the slices of each such request start at that request's flat
\* offset (the scheduled counts before it) and at slice index the pages
\* before it, so a request without tokens shifts nothing behind it.
C18_ZeroScheduledNoSlice ==
    pc = "asm_out" =>
        /\ bufs[1].num_kv_update_slices = PagesBefore(max_num_reqs)
        /\ \A k \in ActiveSlices :
              \E r \in Range0(fn_in.num_reqs) :
                  /\ WinScheduled(r) > 0
                  /\ bufs[1].sm2[k] > 0
                  /\ WinBefore(r) <= bufs[1].sm1[k]
                  /\ bufs[1].sm1[k] + bufs[1].sm2[k] <= WinBefore(r) + WinScheduled(r)
        /\ \A r \in Range0(fn_in.num_reqs) :
              WinScheduled(r) > 0 =>
                  /\ PagesBefore(r) \in ActiveSlices
                  /\ bufs[1].sm1[PagesBefore(r)] = WinBefore(r)
                  /\ bufs[1].sm0[PagesBefore(r)] =
                         fn_in.seq_page_table[r][fn_in.num_computed_tokens[r] \div page_size]
                             * page_size + (fn_in.num_computed_tokens[r] % page_size)

\* a window of three requests whose middle request has nothing scheduled
\* and a num_computed_tokens that is not a multiple of the page size
C18_Witness ==
    /\ pc = "asm_out"
    /\ WinTotal <= max_num_tokens
    /\ fn_in.num_reqs = 3
    /\ WinScheduled(0) > 0
    /\ WinScheduled(1) = 0
    /\ fn_in.num_computed_tokens[1] % page_size # 0
    /\ WinScheduled(2) > 0
    /\ bufs[1].num_kv_update_slices = PagesSpanned(0) + PagesSpanned(2)

(***************************************************************************)
(* SpecPad: the two padding functions applied to arguments drawn from      *)
(* bounded sets.  fn_in holds the arguments, bufs the returned value.      *)
(***************************************************************************)
InitPad ==
    /\ Construct(CfgMaxModelLen, CfgPageSize, CfgMaxNumSeqs, CfgMinInputPad,
                 CfgMetaMaxNumSeqs, TRUE, TRUE)
    /\ \/ /\ pc = "reqs_in"
          /\ fn_in \in [x : 0 .. MaxPadX, upper_limit : 1 .. MaxPadUpper,
                        min_input_pad : 1 .. MaxPadMin]
       \/ /\ pc = "ladder_in"
          /\ fn_in \in [min_token_size : (0 - MaxLadderNeg) .. MaxLadderMin,
                        max_token_size : 0 .. MaxLadderMax,
                        padding_gap : {0, LadderGap}]

\* one call of _get_padded_num_reqs_with_upper_limit
PaddedNumReqsCall ==
    /\ pc = "reqs_in"
    /\ bufs' = Some(GetPaddedNumReqsWithUpperLimit(fn_in.x, fn_in.upper_limit,
                                                   fn_in.min_input_pad))
    /\ pc' = "reqs_out"
    /\ UNCHANGED << cfg, lowerd_history, lowerd_version, twin, kv_pages, rng_key, requests,
                    sequence_buffer, scheduler_output, start_index,
                    combined_selected_tokens, last_key, output, tick, fn_in, upd,
                    batch_count, commit >>

\* one call of _get_token_paddings
TokenPaddingsCall ==
    /\ pc = "ladder_in"
    /\ bufs' = Some(GetTokenPaddings(fn_in.min_token_size, fn_in.max_token_size,
                                     fn_in.padding_gap))
    /\ pc' = "ladder_out"
    /\ UNCHANGED << cfg, lowerd_history, lowerd_version, twin, kv_pages, rng_key, requests,
                    sequence_buffer, scheduler_output, start_index,
                    combined_selected_tokens, last_key, output, tick, fn_in, upd,
                    batch_count, commit >>

NextPad == PaddedNumReqsCall \/ TokenPaddingsCall

SpecPad == InitPad /\ [][NextPad]_vars

\* the powers of two up to 2^8
PowersOfTwo == {1, 2, 4, 8, 16, 32, 64, 128, 256}

\* the smallest power of two that is >= x
SmallestPowerOfTwoAtLeast(x) ==
    CHOOSE p \in PowersOfTwo : p >= x /\ \A q \in PowersOfTwo : q >= x => p <= q

PaddedNumReqsOf(x, upper_limit, mip, res) ==
    /\ pc = "reqs_out"
    /\ fn_in = [x |-> x, upper_limit |-> upper_limit, min_input_pad |-> mip]
    /\ bufs = Some(res)

\* C19: _get_padded_num_reqs_with_upper_limit(x, upper_limit, min_input_pad)
\* returns min(upper_limit, min_input_pad) when x <= min_input_pad and
\* min(upper_limit, the smallest power of two >= x) otherwise; the result is
\* >= x whenever x <= upper_limit; (3, 32, 8) gives 8, (10, 32, 8) gives 16
\* and (20, 16, 8) gives 16.
C19_PaddedNumReqs ==
    pc = "reqs_out" =>
        /\ bufs[1] = IF fn_in.x <= fn_in.min_input_pad
                     THEN Min2(fn_in.upper_limit, fn_in.min_input_pad)
                     ELSE Min2(fn_in.upper_limit, SmallestPowerOfTwoAtLeast(fn_in.x))
        /\ fn_in.x <= fn_in.upper_limit => bufs[1] >= fn_in.x
        /\ fn_in = [x |-> 3, upper_limit |-> 32, min_input_pad |-> 8] => bufs[1] = 8
        /\ fn_in = [x |-> 10, upper_limit |-> 32, min_input_pad |-> 8] => bufs[1] = 16
        /\ fn_in = [x |-> 20, upper_limit |-> 16, min_input_pad |-> 8] => bufs[1] = 16

\* the call (10, 32, 8) has returned 16, or a call with x a power of two
\* above min_input_pad has returned x
C19_Witness ==
    \/ PaddedNumReqsOf(10, 32, 8, 16)
    \/ PaddedNumReqsOf(16, 32, 8, 16)

\* C20: with padding_gap = 0 and min_token_size a power of two,
\* _get_token_paddings returns exactly the strictly ascending list
\* min_token_size, 2 * min_token_size, 4 * min_token_size, ... of the
\* entries <= max_token_size; min 16 and max 128 give [16, 32, 64, 128].
C20_TokenPaddingsDoubling ==
    (/\ pc = "ladder_out"
     /\ fn_in.padding_gap = 0
     /\ fn_in.min_token_size \in PowersOfTwo) =>
        /\ bufs[1] # "ValueError"
        /\ \A i \in 1 .. Len(bufs[1]) :
              /\ bufs[1][i] = fn_in.min_token_size * Pow2(i - 1)
              /\ bufs[1][i] <= fn_in.max_token_size
              /\ i > 1 => bufs[1][i - 1] < bufs[1][i]
        /\ fn_in.min_token_size * Pow2(Len(bufs[1])) > fn_in.max_token_size
        /\ (fn_in.min_token_size = 16 /\ fn_in.max_token_size = 128) =>
              bufs[1] = << 16, 32, 64, 128 >>

\* the call (16, 128, 0) has returned [16, 32, 64, 128]
C20_Witness ==
    /\ pc = "ladder_out"
    /\ fn_in = [min_token_size |-> 16, max_token_size |-> 128, padding_gap |-> 0]
    /\ bufs = Some(<< 16, 32, 64, 128 >>)

\* C21: _get_token_paddings raises ValueError and returns no list whenever
\* min_token_size is not a positive power of two (0 and negative values
\* included), for every max_token_size and padding_gap.
C21_NotPowerOfTwoRaises ==
    (pc = "ladder_out" /\ fn_in.min_token_size \notin PowersOfTwo) =>
        bufs[1] = "ValueError"

\* calls with min_token_size 0, -1 or 12 have raised
C21_Witness ==
    /\ pc = "ladder_out"
    /\ fn_in.min_token_size \in {0, -1, 12}
    /\ fn_in.padding_gap # 0
    /\ bufs[1] = "ValueError"

(***************************************************************************)
(* The value _update_states returns.                                       *)
(***************************************************************************)
\* C22 as stated: _update_states returns True if and only if the set of
\* request ids in the buffer after the call differs from the set before
\* the call (a request was added to or removed from the buffer, the removal
\* of a finished request included).
C22_HasChangesIffSetDiffers ==
    upd # Nothing =>
        (upd[1].has_changes <=>
            DOMAIN sequence_buffer.req_id_to_index # DOMAIN upd[1].index_before)

(***************************************************************************)
(* A tick that raises.                                                     *)
(***************************************************************************)
\* a step in which execute_model raises instead of returning
Aborts == pc # "raised" /\ pc' = "raised"

\* the ids of the new requests listed before the one the assertion fails on
RegisteredBeforeAbort ==
    {scheduler_output'[1].scheduled_new_reqs[j].req_id :
        j \in 1 .. (FirstPooling(scheduler_output'[1].scheduled_new_reqs) - 1)}

\* C23: when a tick raises after _update_states has begun (the assertion on
\* a new request without sampling parameters, the KeyError of the shape
\* lookup in execute, an interrupt during the kernel call), the lifecycle
\* changes applied so far stay (the finished and the unscheduled requests
\* are out of the ledger, the finished ones out of the request table, the
\* result of a completed _update_states is untouched) and nothing of the
\* tick's sampling is committed: no output is produced, no commit happens,
\* and the ledger rows, token counts and output histories of the requests
\* that stay are what they were.
C23_AbortKeepsSyncDropsTokens ==
    [][Aborts =>
        /\ commit' = Nothing
        /\ output' = output
        /\ IF pc = "window"
           THEN UNCHANGED << requests, sequence_buffer, combined_selected_tokens >>
           ELSE /\ \A x \in scheduler_output'[1].finished_req_ids :
                     /\ x \notin DOMAIN sequence_buffer'.req_id_to_index
                     /\ x \in DOMAIN requests' => x \in RegisteredBeforeAbort
                /\ DOMAIN sequence_buffer'.req_id_to_index =
                       (DOMAIN sequence_buffer.req_id_to_index
                           \ scheduler_output'[1].finished_req_ids)
                       \cap DOMAIN scheduler_output'[1].num_scheduled_tokens
                /\ \A x \in DOMAIN sequence_buffer'.req_id_to_index :
                     LET r == sequence_buffer.req_id_to_index[x]
                     IN  /\ sequence_buffer'.req_id_to_index[x] = r
                         /\ sequence_buffer'.num_tokens[r] = sequence_buffer.num_tokens[r]
                         /\ sequence_buffer'.token_ids[r] = sequence_buffer.token_ids[r]
                /\ \A x \in DOMAIN requests' \ RegisteredBeforeAbort :
                     /\ x \in DOMAIN requests
                     /\ requests'[x] = requests[x]
                /\ \A x \in RegisteredBeforeAbort :
                     /\ x \in DOMAIN requests'
                     /\ requests'[x].output_token_ids = << >>
    ]_vars

\* the assertion failed in a tick that also finished a request and that
\* registered a new request before failing
C23_Witness ==
    /\ pc = "raised"
    /\ upd = Nothing
    /\ scheduler_output[1].finished_req_ids # {}
    /\ FirstPooling(scheduler_output[1].scheduled_new_reqs) > 1

(***************************************************************************)
(* ExecutorManager.execute: keys, stages, caches and the returned pair.    *)
(***************************************************************************)
\* the last execute call ran its stages
Executed == last_key # Nothing /\ last_key[1].found

C25_SecondIsLogitsInSplitMode ==
    Executed =>
        last_key[1].call.second =
            IF use_combined_forward THEN Nothing ELSE Some(last_key[1].call.logits)

(***************************************************************************)
(* The windows of a tick.                                                  *)
(***************************************************************************)
\* one iteration of the window loop of execute_model
WindowStep == pc = "window" /\ batch_count' = batch_count + 1

\* the window just assembled holds, for its i-th request, what ledger row r
\* holds: sequence length, page-table row, and first position and token
AssembledFromRow(i, r) ==
    LET b == bufs'[1]
        nct == sequence_buffer.num_computed_tokens[r]
        t == b.query_start_loc_buf[i]
    IN  /\ b.seq_lens_buf[i] = nct + RowScheduled(r)
        /\ i < num_reqs_max_model_len => b.pages_tables_buf[i] = sequence_buffer.page_table[r]
        /\ (RowScheduled(r) > 0 /\ t \in DOMAIN b.position_ids_buf) =>
              /\ b.position_ids_buf[t] = nct
              /\ b.input_ids_buf[t] = sequence_buffer.token_ids[r][nct]

\* C26 as stated: the window that starts at ledger row start_index
\* assembles the inputs of its i-th request from ledger row start_index + i,
\* also when start_index > 0.
C26_WindowReadsItsOwnRows ==
    [][WindowStep =>
          \A i \in Range0(last_key'[1].num_reqs) : AssembledFromRow(i, start_index + i)
    ]_vars

\* C27 as stated: every iteration of the window loop that returns from
\* execute advances start_index by at least one row, also when a buffered
\* request has no tokens scheduled, so that the loop ends.
C27_WindowAdvances ==
    [][(WindowStep /\ pc' = "window") => start_index' > start_index]_vars

\* the step in which execute_model starts the window loop
SyncStep == pc = "idle" /\ pc' = "window"

\* the step in which _process_sampled_tokens commits the tick
CommitStep == pc = "window" /\ pc' = "idle"

\* C28 as stated: in a tick with scheduled tokens _update_states runs once
\* and first; then every window is assembled from the synced ledger and
\* executed, each window starting at a higher row than the one before;
\* then the commit runs once, after the last window; no window reads
\* ledger tokens written by the commit of its own tick.
C28_TickOrder ==
    [][/\ SyncStep =>
            /\ upd' # Nothing /\ commit' = Nothing
            /\ start_index' = 0 /\ batch_count' = 0
       /\ WindowStep =>
            /\ Synced
            /\ UNCHANGED << upd, commit, requests, sequence_buffer >>
            /\ bufs' = Some(PrepareInputs(sequence_buffer, scheduler_output[1],
                                          start_index).fn)
            /\ pc' = "window" =>
                  /\ Len(combined_selected_tokens') = batch_count'
                  /\ start_index' > start_index
       /\ CommitStep =>
            /\ Synced /\ commit' # Nothing
            /\ batch_count >= 1
            /\ start_index >= NumReqs(sequence_buffer)
            /\ UNCHANGED << upd, start_index, batch_count >>
    ]_vars

\* C29: in split mode execute calls the hidden-states stage and then the
\* tokens stage (the combined mode calls the one function); the forward
\* pass is given the cache the executor holds, the executor then holds the
\* cache that pass returned, a new one, so that no later call is given an
\* older cache; the carried key is replaced by the key the sampling
\* returned in every execute.
C29_StagesThreadCacheAndKey ==
    [][/\ kv_pages' >= kv_pages
       /\ (ExecuteStep /\ ~KeyMissing) =>
            LET call == last_key'[1].call
            IN  /\ IF use_combined_forward
                   THEN /\ Len(call.stages) = 1
                        /\ call.stages[1].fn = "main"
                   ELSE /\ Len(call.stages) = 2
                        /\ call.stages[1].fn = "hidden_states"
                        /\ call.stages[2].fn = "tokens"
                /\ call.stages[1].kv_in = kv_pages
                /\ kv_pages' = call.stages[1].kv_out
                /\ kv_pages' > kv_pages
                /\ rng_key' = call.rng_key
                /\ rng_key' # rng_key
    ]_vars

\* the second execute of a split-mode executor was given the cache the
\* first one returned
C29_Witness ==
    /\ Executed
    /\ ~use_combined_forward
    /\ tick = 2
    /\ last_key[1].call.stages[1].kv_in = kv_pages - 1
    /\ last_key[1].call.stages[1].kv_in >= 1
    /\ rng_key = CarriedKey(CarriedKey(0))

(***************************************************************************)
(* The padding of the slot-mapping buffer.                                 *)
(***************************************************************************)
\* column k of slot_mapping_buf holds the padding value in all three rows
PaddingColumn(k) ==
    SliceAt(k) = << SLOT_MAPPING_PADDING_VAL, SLOT_MAPPING_PADDING_VAL,
                    SLOT_MAPPING_PADDING_VAL >>

\* column k holds the padding value in none of its rows
RealColumn(k) ==
    /\ bufs[1].sm0[k] # SLOT_MAPPING_PADDING_VAL
    /\ bufs[1].sm1[k] # SLOT_MAPPING_PADDING_VAL
    /\ bufs[1].sm2[k] # SLOT_MAPPING_PADDING_VAL

\* the columns from num_kv_update_slices on are padding, the columns below
\* are real, and the count is the number of columns that are not padding
CountSplitsColumns ==
    /\ \A k \in Range0(max_padded_slices) :
          IF k >= bufs[1].num_kv_update_slices THEN PaddingColumn(k) ELSE RealColumn(k)
    /\ bufs[1].num_kv_update_slices =
          Cardinality({k \in Range0(max_padded_slices) : ~PaddingColumn(k)})

\* C30 as stated: in the slot-mapping buffer every column at an index of at
\* least num_kv_update_slices is padding in all three rows and every column
\* below it holds a real triple, so that num_kv_update_slices is the number
\* of columns that are not padding.
C30_AsStated ==
    pc = "asm_out" => CountSplitsColumns

\* C30 amended: the same, for every window whose total scheduled tokens do
\* not exceed max_num_tokens.
C30_PaddingBeyondCount ==
    (pc = "asm_out" /\ WinTotal <= max_num_tokens) => CountSplitsColumns

\* a window within the budget with two slices and padding columns left,
\* the middle one of its three requests without scheduled tokens
C30_Witness ==
    /\ pc = "asm_out"
    /\ WinTotal <= max_num_tokens
    /\ fn_in.num_reqs = 3
    /\ WinScheduled(1) = 0
    /\ bufs[1].num_kv_update_slices = 2
    /\ bufs[1].num_kv_update_slices < bufs[1].padded_num_slices
    /\ RealColumn(1) /\ PaddingColumn(2)

(***************************************************************************)
(* The logits indices and the padded total of a window.                    *)
(***************************************************************************)
\* logits_indices[i] is query_start_loc[i + 1] - 1, the flat index of the
\* last scheduled token of request i, inside the window's tokens
LastTokenOfRequest(i) ==
    /\ bufs[1].logits_indices_full[i] = bufs[1].query_start_loc_buf[i + 1] - 1
    /\ bufs[1].logits_indices_full[i] = WinBefore(i) + WinScheduled(i) - 1
    /\ i \in OwnersOf(bufs[1].logits_indices_full[i])
    /\ bufs[1].logits_indices_full[i] >= 0
    /\ bufs[1].logits_indices_full[i] < WinTotal

\* C31 as stated: for every active request i of a window, a request with
\* zero scheduled tokens included, logits_indices[i] is
\* query_start_loc[i + 1] - 1, the flat index of the last scheduled token
\* of request i itself, and lies in [0, total scheduled tokens).
C31_AsStated ==
    pc = "asm_out" => \A i \in Range0(fn_in.num_reqs) : LastTokenOfRequest(i)

\* C31 amended: the same for every active request with at least one
\* scheduled token; for an active request without scheduled tokens
\* logits_indices[i] is still query_start_loc[i + 1] - 1, which is the
\* index of the last token of the requests before it, or -1.
C31_LogitsIndexIsLastToken ==
    pc = "asm_out" =>
        \A i \in Range0(fn_in.num_reqs) :
            IF WinScheduled(i) > 0 THEN LastTokenOfRequest(i)
            ELSE /\ bufs[1].logits_indices_full[i] = bufs[1].query_start_loc_buf[i + 1] - 1
                 /\ bufs[1].logits_indices_full[i] = WinBefore(i) - 1

\* three requests, the first and the last with tokens, the middle without
C31_Witness ==
    /\ pc = "asm_out"
    /\ fn_in.num_reqs = 3
    /\ WinScheduled(0) > 0 /\ WinScheduled(1) = 0 /\ WinScheduled(2) > 0
    /\ bufs[1].logits_indices_full[2] = WinTotal - 1
    /\ bufs[1].logits_indices_full[1] = bufs[1].logits_indices_full[0]

\* the entries of the padding ladder
LadderEntries == {num_tokens_paddings[i] : i \in 1 .. Len(num_tokens_paddings)}

\* padded_total is the smallest ladder entry that holds the window's total,
\* and every scheduled token lies in the view of padded_total positions
PaddedTotalIsSmallestEntry ==
    /\ bufs[1].padded_total \in LadderEntries
    /\ bufs[1].padded_total >= WinTotal
    /\ \A q \in LadderEntries : q >= WinTotal => bufs[1].padded_total <= q
    /\ \A t \in Range0(WinTotal) : t < bufs[1].padded_total

\* C32 as stated: the padded total returned by the assembler is a ladder
\* entry, the smallest one >= the window's total scheduled tokens, so that
\* padded_total >= total for every window and no scheduled token falls
\* outside the input view.
C32_AsStated ==
    pc = "asm_out" => PaddedTotalIsSmallestEntry

\* C32 amended: the same, for every window whose total scheduled tokens do
\* not exceed max_num_tokens; for a larger total padded_total is
\* max_num_tokens, below the total.
C32_PaddedTotalSmallestEntry ==
    pc = "asm_out" =>
        IF WinTotal <= max_num_tokens THEN PaddedTotalIsSmallestEntry
        ELSE bufs[1].padded_total = max_num_tokens

\* a total of 17 on the ladder 16, 32 is padded to 32, and one of 16 to 16
C32_Witness ==
    /\ pc = "asm_out"
    /\ num_tokens_paddings = << 16, 32 >>
    /\ \/ WinTotal = 17 /\ bufs[1].padded_total = 32
       \/ WinTotal = 16 /\ bufs[1].padded_total = 16

(***************************************************************************)
(* The reach of the padding ladder.                                        *)
(***************************************************************************)
\* C33 as stated: for every power-of-two min_token_size and every
\* max_token_size the list _get_token_paddings returns is not empty and its
\* largest entry is >= max_token_size, so that every total up to
\* max_token_size has a ladder entry at least as large.
C33_LadderCoversMaximum ==
    (pc = "ladder_out" /\ fn_in.min_token_size \in PowersOfTwo) =>
        /\ bufs[1] # "ValueError"
        /\ Len(bufs[1]) > 0
        /\ bufs[1][Len(bufs[1])] >= fn_in.max_token_size
        /\ \A total \in 0 .. fn_in.max_token_size :
              \E i \in 1 .. Len(bufs[1]) : bufs[1][i] >= total


(***************************************************************************)
(* The order in which freed rows are handed out.  _update_states frees the *)
(* rows of the finished requests first and the rows of the unscheduled     *)
(* requests after them, so a row of an unscheduled request was freed more  *)
(* recently than any row of a finished request.                            *)
(***************************************************************************)
\* the rows freed by the finished requests of this tick
FinishedRows ==
    {upd[1].index_before[x] :
        x \in scheduler_output[1].finished_req_ids \cap DOMAIN upd[1].index_before}

\* the rows freed, after those, by the unscheduled requests of this tick
UnscheduledRows == {upd[1].index_before[x] : x \in upd[1].unscheduled_req_ids}

\* the freed rows not yet handed out when the k-th request is added
FreedLeftAt(k) ==
    SeqSet(upd[1].removed_req_indices) \ {upd[1].placed[j] : j \in 1 .. k - 1}

\* C34 as stated: the freed rows are handed out most-recently-freed first (no
\* row of a finished request is handed out while a row of an unscheduled
\* request, freed after it, is still left), and a fresh row is appended only
\* when no freed row is left.
C34_AsStated ==
    Synced =>
        \A k \in 1 .. Len(upd[1].req_ids_to_add) :
            /\ FreedLeftAt(k) # {} => upd[1].placed[k] \in FreedLeftAt(k)
            /\ upd[1].placed[k] \in FinishedRows => FreedLeftAt(k) \cap UnscheduledRows = {}

\* C34: the freed rows are handed out lowest row first,
\* whatever the order in which they were freed, and a fresh row (the one after
\* the highest row in use) is appended only when no freed row is left.
C34_LowestFreedRowFirst ==
    Synced =>
        \A k \in 1 .. Len(upd[1].req_ids_to_add) :
            IF FreedLeftAt(k) # {}
            THEN upd[1].placed[k] = Min(FreedLeftAt(k))
            ELSE /\ upd[1].placed[k] \notin SeqSet(upd[1].removed_req_indices)
                 /\ upd[1].placed[k] \notin {upd[1].placed[j] : j \in 1 .. k - 1}

\* a tick frees the row of a finished request and, after it, a higher row of
\* an unscheduled request, and a request added in that tick takes the
\* finished request's row
C34_Witness ==
    /\ Synced
    /\ Len(upd[1].req_ids_to_add) > 0
    /\ upd[1].placed[1] \in FinishedRows
    /\ \E r \in UnscheduledRows : r > upd[1].placed[1]



(***************************************************************************)
(* The ledger's page-table row and the cached state's page ids.            *)
(***************************************************************************)
\* the page ids the ledger row of a buffered request holds
LedgerPages(x) ==
    LET row == sequence_buffer.page_table[sequence_buffer.req_id_to_index[x]]
        mppr == (max_model_len + page_size - 1) \div page_size
    IN  [k \in 1 .. PageRowLen(row, mppr) |-> row[k - 1]]

\* the new page ids the scheduler reported for a cached request of this tick
ReportedNewPages(x) ==
    LET c == scheduler_output[1].scheduled_cached_reqs
        k == CHOOSE j \in 1 .. Len(c.req_ids) : c.req_ids[j] = x
    IN  c.new_page_ids[k]

\* C35: after every _update_states, for every request in the buffer the
\* ledger's page-table row holds exactly the page ids of the request's cached
\* state: the previous pages followed by the new ones for a normal
\* continuation, only the new pages for a request flagged as resumed from
\* preemption, also when the resumed request is still in the buffer.
C35_LedgerRowIsCachedPages ==
    Synced =>
        \A x \in DOMAIN sequence_buffer.req_id_to_index :
            /\ LedgerPages(x) = requests[x].page_ids
            /\ x \in CachedReqIds =>
                  requests[x].page_ids =
                      IF x \in ResumedIds THEN ReportedNewPages(x)
                      ELSE upd[1].requests_before[x].page_ids \o ReportedNewPages(x)



(***************************************************************************)
(* The shapes of what a window hands to execute.                           *)
(***************************************************************************)
\* the length of an array
Shape(a) == Cardinality(DOMAIN a)

\* the slot-mapping width that belongs to a padded total
SlotWidthOf(padded_total) ==
    Min2(((Min2(2 * max_num_reqs + padded_total \div page_size, padded_total)
               + SlicesPerPage - 1) \div SlicesPerPage) * SlicesPerPage,
         max_padded_slices)

\* C36: every array a window hands to execute has a shape fixed by the shape
\* key (padded_total, padded_num_reqs) and the construction constants: the
\* input-id and position views have length padded_total, the logits indices
\* and the sampling parameters length padded_num_reqs, the page table,
\* context-length and query-start arrays their fixed sizes, and the three
\* slot-mapping rows a width that is a function of padded_total alone.
C36_ShapesFromKeyOnly ==
    pc = "asm_out" =>
        LET v == PrepareInputsViews(bufs[1])
            sampling == FromSequenceBuffer(requests, sequence_buffer, bufs[1].padded_num_reqs)
            key == [num_tokens |-> bufs[1].padded_total,
                    padded_num_reqs |-> bufs[1].padded_num_reqs]
        IN  /\ Shape(v.input_ids_view) = key.num_tokens
            /\ Shape(v.position_ids_view) = key.num_tokens
            /\ Shape(v.logits_indices) = key.padded_num_reqs
            /\ Shape(sampling.temperature) = key.padded_num_reqs
            /\ Shape(sampling.top_p) = key.padded_num_reqs
            /\ Shape(v.pages_tables) = num_reqs_max_model_len
            /\ \A i \in DOMAIN v.pages_tables : Shape(v.pages_tables[i]) = max_pages_per_req
            /\ Shape(v.context_lens) = num_reqs_max_model_len
            /\ Shape(v.query_start_loc) = num_reqs_max_model_len + 1
            /\ \A j \in 1 .. 3 : Shape(v.slot_mapping[j]) = SlotWidthOf(key.num_tokens)

\* a window of fewer requests, tokens and slices than its key pads to, with
\* a slot-mapping view narrower than the buffer
C36_Witness ==
    /\ pc = "asm_out"
    /\ fn_in.num_reqs < bufs[1].padded_num_reqs
    /\ bufs[1].padded_num_reqs < max_num_reqs
    /\ 0 < WinTotal /\ WinTotal < bufs[1].padded_total
    /\ bufs[1].num_kv_update_slices < bufs[1].padded_num_slices
    /\ bufs[1].padded_num_slices < max_padded_slices
    /\ Shape(PrepareInputsViews(bufs[1]).slot_mapping[1]) = bufs[1].padded_num_slices
    /\ Shape(PrepareInputsViews(bufs[1]).logits_indices) < Shape(bufs[1].logits_indices_full)


(***************************************************************************)
(* The active slices of a window, one by one.                              *)
(***************************************************************************)
\* the sum of the lengths of the active slices before column k
RECURSIVE SliceLensBefore(_)
SliceLensBefore(k) ==
    IF k <= 0 THEN 0
    ELSE (IF (k - 1) \in ActiveSlices THEN bufs[1].sm2[k - 1] ELSE 0) + SliceLensBefore(k - 1)

\* C37: in every window whose total scheduled tokens do not exceed
\* max_num_tokens, each active slice has 1 <= length <= page_size and lies
\* inside one page ((destination mod page_size) + length <= page_size), its
\* source offset is the sum of the lengths of the slices before it (0 for the
\* first), and the lengths of the active slices sum to the window's total.
C37_SlicesWithinPages ==
    (pc = "asm_out" /\ WinTotal <= max_num_tokens) =>
        /\ \A k \in ActiveSlices :
              /\ 1 <= bufs[1].sm2[k] /\ bufs[1].sm2[k] <= page_size
              /\ (bufs[1].sm0[k] % page_size) + bufs[1].sm2[k] <= page_size
              /\ bufs[1].sm1[k] = SliceLensBefore(k)
        /\ SliceLensBefore(max_padded_slices) = WinTotal

\* three requests: the first ends inside a page, the second spans a page
\* boundary from the middle of a page, the third fills a whole page
C37_Witness ==
    /\ pc = "asm_out"
    /\ WinTotal <= max_num_tokens
    /\ fn_in.num_reqs = 3
    /\ Cardinality(ActiveSlices) >= 4
    /\ \E k \in ActiveSlices : bufs[1].sm0[k] % page_size # 0 /\ bufs[1].sm2[k] < page_size
    /\ \E k \in ActiveSlices : bufs[1].sm2[k] = page_size
    /\ \E k \in ActiveSlices : k > 0 /\ bufs[1].sm1[k] > bufs[1].sm2[k - 1]



(***************************************************************************)
(* The host-side slot mapping against the jitted assembler.                *)
(***************************************************************************)
\* the rows _vectorized_slot_mapping returns for the window of the call
HostRows ==
    VectorizedSlotMapping(fn_in.num_computed_tokens, fn_in.scheduled_full,
                          fn_in.seq_page_table, fn_in.num_reqs)

\* one request with one scheduled token
OneTokenWindow == fn_in.num_reqs = 1 /\ fn_in.scheduled_full[0] = 1

\* C38: for one request with one scheduled token after n computed tokens the
\* shortcut of _get_slot_mapping_metadata returns the single slice
\* (page_table[0][n // page_size] * page_size + n % page_size, 0, 1), the
\* same as _vectorized_slot_mapping returns.
C38_ShortcutIsVectorized ==
    (pc = "asm_out" /\ OneTokenWindow) =>
        LET n == fn_in.num_computed_tokens[0]
            res == GetSlotMappingMetadata(fn_in.num_computed_tokens, fn_in.scheduled_full,
                                          fn_in.seq_page_table, fn_in.num_reqs)
        IN  /\ res = << << fn_in.seq_page_table[0][n \div page_size] * page_size
                               + (n % page_size), 0, 1 >> >>
            /\ res = HostRows

\* the token follows computed tokens and does not start a page
C38_Witness ==
    /\ pc = "asm_out"
    /\ OneTokenWindow
    /\ fn_in.num_computed_tokens[0] % page_size # 0
    /\ Len(HostRows) = 1
    /\ HostRows[1][1] % page_size # 0

\* the active slices are, in number and order, the host-side rows
SlicesAreHostRows ==
    /\ Cardinality(ActiveSlices) = Len(HostRows)
    /\ \A k \in ActiveSlices : k < Len(HostRows) /\ SliceAt(k) = HostRows[k + 1]

C40_PaddedNumReqsAgree ==
    last_key # Nothing =>
        /\ last_key[1].padded_num_reqs =
               GetPaddedNumReqsWithUpperLimit(last_key[1].num_reqs, max_num_reqs,
                                              min_input_pad)
        /\ \A nr \in 0 .. max_num_reqs :
               JitPaddedNumReqs(nr) =
                   GetPaddedNumReqsWithUpperLimit(nr, max_num_reqs, min_input_pad)

\* an execute for a request count above min_input_pad that is a power of
\* two, padded to itself below the cap, in a runner where a count that is
\* not a power of two is padded up
C40_Witness ==
    /\ last_key # Nothing
    /\ last_key[1].num_reqs = 4
    /\ min_input_pad < 3
    /\ max_num_reqs > 4
    /\ last_key[1].padded_num_reqs = 4
    /\ JitPaddedNumReqs(3) = 4
    /\ JitPaddedNumReqs(5) = max_num_reqs


====
